---------------------------- MODULE Spec2Model ----------------------------
(***************************************************************************)
(* A model of the name->profession pipeline (scripts/*.py).                *)
(*                                                                         *)
(* Text is modelled as a sequence of Unicode code points, so that clean(), *)
(* split() and the trigram slices are computed character by character.     *)
(* A PMI value is log2 of a positive rational; it is modelled exactly, as  *)
(* the vector of prime exponents of that rational (log2 of a product is    *)
(* the sum of the vectors), so sums and comparisons of scores are those of *)
(* real arithmetic.  Floating-point rounding is not modelled.              *)
(***************************************************************************)
EXTENDS Integers, Sequences, FiniteSets, TLC

(***************************************************************************)
(* analyze_name_profession.py: text cleaning and tokenisation              *)
(***************************************************************************)

\* [A-Za-zÀ-ÖØ-öø-ÿ] of the pattern in clean()
IsLetter(ch) ==
    \/ ch \in 65..90
    \/ ch \in 97..122
    \/ ch \in 192..214
    \/ ch \in 216..246
    \/ ch \in 248..255

\* \s of the pattern in clean(), and the separators of str.split()/strip()
IsSpace(ch) == ch \in (9..13) \cup (28..32) \cup {133, 160}

\* str.lower() on one code point of the Latin-1 range
LowerChar(ch) ==
    IF ch \in (65..90) \cup (192..214) \cup (216..222) THEN ch + 32 ELSE ch

\* re.sub(r"[^A-Za-z...\s]", " ", s).lower() ; strip() is done by split_ws
clean(s) ==
    [i \in 1..Len(s) |->
        IF IsLetter(s[i]) \/ IsSpace(s[i]) THEN LowerChar(s[i]) ELSE 32]

\* str.split(): the maximal runs of non-whitespace, left to right.
\* cur is the run being read, acc the runs already closed.
RECURSIVE SplitFrom(_, _, _, _)
SplitFrom(s, i, cur, acc) ==
    IF i > Len(s)
    THEN IF cur = <<>> THEN acc ELSE Append(acc, cur)
    ELSE IF IsSpace(s[i])
         THEN SplitFrom(s, i + 1, <<>>,
                        IF cur = <<>> THEN acc ELSE Append(acc, cur))
         ELSE SplitFrom(s, i + 1, Append(cur, s[i]), acc)

split_ws(s) == SplitFrom(s, 1, <<>>, <<>>)

\* s.replace(" ", "")
RECURSIVE DropBlanks(_)
DropBlanks(s) ==
    IF s = <<>> THEN <<>>
    ELSE IF Head(s) = 32 THEN DropBlanks(Tail(s))
         ELSE <<Head(s)>> \o DropBlanks(Tail(s))

\* char_trigrams(s): the list [s[i:i+3] for i in range(len(s)-2)]
char_trigrams(s) ==
    LET t == DropBlanks(s)
    IN  IF Len(t) < 3 THEN <<>>
        ELSE [i \in 1..(Len(t) - 2) |-> SubSeq(t, i, i + 2)]

\* max(parts, key=len): the first element of greatest length
RECURSIVE MaxByLen(_, _)
MaxByLen(parts, best) ==
    IF parts = <<>> THEN best
    ELSE MaxByLen(Tail(parts),
                  IF Len(Head(parts)) > Len(best) THEN Head(parts) ELSE best)

\* lst[:n]
Take(lst, n) == SubSeq(lst, 1, IF Len(lst) < n THEN Len(lst) ELSE n)

Range(f) == {f[i] : i \in DOMAIN f}

\* the words one name field adds to parts ("if full_name: parts.extend(...)")
FieldWords(s) == IF s = <<>> THEN <<>> ELSE split_ws(clean(s))

TrigramCapLost(parts) ==
    LET longest == IF parts = <<>> THEN <<>> ELSE MaxByLen(Tail(parts), Head(parts))
    IN  Range(char_trigrams(longest))

TrigramPart(parts) ==
    LET longest == IF parts = <<>> THEN <<>> ELSE MaxByLen(Tail(parts), Head(parts))
    IN  Range(Take(char_trigrams(longest), 5))

name_tokens(full_name, given_name, surname) ==
    LET parts == FieldWords(full_name) \o FieldWords(given_name) \o FieldWords(surname)
        toks  == Range(parts) \cup TrigramPart(parts)
    IN  {t \in toks : Len(t) >= 2}


(***************************************************************************)
(* Arithmetic of learn_pmi: probabilities are rationals <<n, d>>, and      *)
(* math.log(x, 2) of a positive rational is its vector of prime exponents. *)
(***************************************************************************)

\* The primes the exponent vectors carry; Log2 checks that they suffice.
Primes == {2, 3, 5, 7, 11, 13, 17, 19, 23, 29, 31, 37, 41, 43, 47}

RECURSIVE Exp(_, _)
Exp(n, p) == IF n % p = 0 THEN 1 + Exp(n \div p, p) ELSE 0

RECURSIVE Pow(_, _)
Pow(b, e) == IF e = 0 THEN 1 ELSE b * Pow(b, e - 1)

RECURSIVE ProdOver(_, _)
ProdOver(S, v) ==
    IF S = {} THEN 1
    ELSE LET p == CHOOSE x \in S : TRUE
         IN  Pow(p, v[p]) * ProdOver(S \ {p}, v)

\* 0.0
Zero == [p \in Primes |-> 0]

VAdd(u, v) == [p \in Primes |-> u[p] + v[p]]
VSub(u, v) == [p \in Primes |-> u[p] - v[p]]

\* the sign of the real number a vector stands for: -1, 0 or 1
Sign(v) ==
    LET pos == ProdOver({p \in Primes : v[p] > 0}, v)
        neg == ProdOver({p \in Primes : v[p] < 0}, [p \in Primes |-> 0 - v[p]])
    IN  IF pos > neg THEN 1 ELSE IF pos < neg THEN -1 ELSE 0

\* u >= v, u > v as floats compare
Geq(u, v) == Sign(VSub(u, v)) >= 0
Gt(u, v)  == Sign(VSub(u, v)) > 0

\* what math.log and the division raise on (ValueError, ZeroDivisionError):
\* a value that is no exponent vector
MathError == [p \in {0} |-> 0]

RatMul(a, b) == <<a[1] * b[1], a[2] * b[2]>>
RatDiv(a, b) == <<a[1] * b[2], a[2] * b[1]>>

\* math.log(q, 2) for a rational q
Log2(q) ==
    IF q[1] <= 0 \/ q[2] <= 0 THEN MathError
    ELSE LET e == [p \in Primes |-> Exp(q[1], p) - Exp(q[2], p)]
         IN  IF ProdOver({p \in Primes : e[p] > 0}, e) * q[2]
                  = ProdOver({p \in Primes : e[p] < 0}, [p \in Primes |-> 0 - e[p]]) * q[1]
             THEN e
             ELSE MathError

(***************************************************************************)
(* analyze_name_profession.py: learn_pmi                                   *)
(***************************************************************************)

\* Counter / defaultdict lookups: a missing key reads as 0
Count(counter, k) == IF k \in DOMAIN counter THEN counter[k] ELSE 0
Incr(counter, k) ==
    [x \in DOMAIN counter \cup {k} |->
        IF x = k THEN Count(counter, k) + 1 ELSE counter[x]]

\* "for t in toks: token_counts[t] += 1"
RECURSIVE IncrTokens(_, _)
IncrTokens(counter, S) ==
    IF S = {} THEN counter
    ELSE LET t == CHOOSE x \in S : TRUE
         IN  IncrTokens(Incr(counter, t), S \ {t})

\* "for t in toks: joint_counts[cluster][t] += 1", keyed by <<cluster, t>>
RECURSIVE IncrJoint(_, _, _)
IncrJoint(counter, c, S) ==
    IF S = {} THEN counter
    ELSE LET t == CHOOSE x \in S : TRUE
         IN  IncrJoint(Incr(counter, <<c, t>>), c, S \ {t})

\* the counters before the loop of learn_pmi
NoCounts ==
    [N |-> 0, cluster_counts |-> <<>>, clusters |-> <<>>,
     token_counts |-> <<>>, joint_counts |-> <<>>]

CountRecordUnlabeledToo(st, rec) ==
    LET toks == name_tokens(rec.full_name, rec.given_name, rec.surname)
    IN  IF toks = {} THEN st
        ELSE [N              |-> st.N + 1,
              cluster_counts |-> Incr(st.cluster_counts, rec.cluster),
              clusters       |-> IF rec.cluster \in DOMAIN st.cluster_counts
                                 THEN st.clusters
                                 ELSE Append(st.clusters, rec.cluster),
              token_counts   |-> IncrTokens(st.token_counts, toks),
              joint_counts   |-> IncrJoint(st.joint_counts, rec.cluster, toks)]

\* one iteration of "for rec in records"; clusters keeps the insertion order
\* of cluster_counts, which list(cluster_counts.keys()) returns
CountRecord(st, rec) ==
    LET toks == name_tokens(rec.full_name, rec.given_name, rec.surname)
    IN  IF rec.full_name = <<>> /\ rec.given_name = <<>> /\ rec.surname = <<>>
        THEN st
        ELSE IF rec.cluster = "" THEN st
        ELSE IF toks = {} THEN st
        ELSE [N              |-> st.N + 1,
              cluster_counts |-> Incr(st.cluster_counts, rec.cluster),
              clusters       |-> IF rec.cluster \in DOMAIN st.cluster_counts
                                 THEN st.clusters
                                 ELSE Append(st.clusters, rec.cluster),
              token_counts   |-> IncrTokens(st.token_counts, toks),
              joint_counts   |-> IncrJoint(st.joint_counts, rec.cluster, toks)]

RECURSIVE CountUntilUnlabeled(_, _)
CountUntilUnlabeled(st, recs) ==
    IF recs = <<>> \/ Head(recs).cluster = "" THEN st
    ELSE CountUntilUnlabeled(CountRecord(st, Head(recs)), Tail(recs))

RECURSIVE CountAll(_, _)
CountAll(st, recs) ==
    IF recs = <<>> THEN st ELSE CountAll(CountRecord(st, Head(recs)), Tail(recs))

NoSmoothing == 1 - 1

\* Laplace smoothing
alpha == 1

SmoothedCluster(st, c) ==
    <<Count(st.cluster_counts, c) + alpha, st.N + alpha * Len(st.clusters)>>

SmoothedToken(st, t) ==
    <<Count(st.token_counts, t) + alpha,
      st.N + alpha * Cardinality(DOMAIN st.token_counts)>>

JointIgnoresCluster(st, c, t) ==
    <<Count(st.token_counts, t) + alpha,
      st.N + alpha * Cardinality(DOMAIN st.token_counts) * Len(st.clusters)>>

\* num of the inner loop
SmoothedJoint(st, c, t) ==
    <<Count(st.joint_counts, <<c, t>>) + alpha,
      st.N + alpha * Cardinality(DOMAIN st.token_counts) * Len(st.clusters)>>

PmiValue(st, c, t) ==
    Log2(RatDiv(SmoothedJoint(st, c, t),
                RatMul(SmoothedCluster(st, c), SmoothedToken(st, t))))

learn_pmi(recs) ==
    LET st == CountAll(NoCounts, recs)
    IN  IF st.N = 0
        THEN [pmi |-> <<>>, p_cluster |-> <<>>, p_token |-> <<>>, N |-> 0,
              clusters |-> <<>>, counts |-> st]
        ELSE [pmi       |-> [c \in DOMAIN st.cluster_counts |->
                               [t \in DOMAIN st.token_counts |-> PmiValue(st, c, t)]],
              p_cluster |-> [c \in DOMAIN st.cluster_counts |-> SmoothedCluster(st, c)],
              p_token   |-> [t \in DOMAIN st.token_counts |-> SmoothedToken(st, t)],
              N         |-> st.N,
              clusters  |-> st.clusters,
              counts    |-> st]


(***************************************************************************)
(* analyze_name_profession.py: score_record                                *)
(***************************************************************************)

\* pmi.get(c, {}).get(t, 0.0)
PmiGet(pmi, c, t) ==
    IF c \in DOMAIN pmi /\ t \in DOMAIN pmi[c] THEN pmi[c][t] ELSE Zero

\* the inner statement of the scoring loop, for one cluster over all tokens
RECURSIVE SumPmi(_, _, _)
SumPmi(toks, pmi, c) ==
    IF toks = {} THEN Zero
    ELSE LET t   == CHOOSE x \in toks : TRUE
             val == PmiGet(pmi, c, t)
             sub == SumPmi(toks \ {t}, pmi, c)
         IN  IF val # Zero THEN VAdd(sub, val) ELSE sub

RECURSIVE InsertAsc(_, _, _)
InsertAsc(ranked, c, scores) ==
    IF ranked = <<>> THEN <<c>>
    ELSE IF Gt(scores[Head(ranked)], scores[c])
         THEN <<c>> \o ranked
         ELSE <<Head(ranked)>> \o InsertAsc(Tail(ranked), c, scores)

\* sorted(..., key=score, reverse=True) is stable: one cluster is placed
\* before the first cluster of strictly smaller score
RECURSIVE InsertDesc(_, _, _)
InsertDesc(ranked, c, scores) ==
    IF ranked = <<>> THEN <<c>>
    ELSE IF Gt(scores[c], scores[Head(ranked)])
         THEN <<c>> \o ranked
         ELSE <<Head(ranked)>> \o InsertDesc(Tail(ranked), c, scores)

RECURSIVE SortDesc(_, _, _)
SortDesc(ranked, rest, scores) ==
    IF rest = <<>> THEN ranked
    ELSE SortDesc(InsertDesc(ranked, Head(rest), scores), Tail(rest), scores)

LastScore(ranked, scores) ==
    IF Len(ranked) > 1 THEN scores[ranked[Len(ranked)]] ELSE Zero

\* second_s: the score ranked second, 0.0 when there is none
SecondScore(ranked, scores) ==
    IF Len(ranked) > 1 THEN scores[ranked[2]] ELSE Zero

score_record(toks, pmi, clusters) ==
    LET scores   == [c \in Range(clusters) |-> SumPmi(toks, pmi, c)]
        ranked   == SortDesc(<<>>, clusters, scores)
        best_c   == ranked[1]
        best_s   == scores[best_c]
        second_s == SecondScore(ranked, scores)
    IN  [best_c |-> best_c, gap |-> VSub(best_s, second_s),
         scores |-> scores, ranked |-> ranked]

(***************************************************************************)
(* analyze_name_profession.py: main, one run over a table                  *)
(***************************************************************************)

\* Most records a table holds
MaxRecords == 3

\* "Al Bo", "Bo" + "Cy", "Cy Di", "?!"
AlBo        == <<65, 108, 32, 66, 111>>
Bo          == <<66, 111>>
Cy          == <<67, 121>>
CyDi        == <<67, 121, 32, 68, 105>>
Punctuation == <<63, 33>>

\* the name fields of a row: full name, given name, surname
NameFields ==
    { <<AlBo, <<>>, <<>>>>, <<<<>>, Bo, Cy>>, <<CyDi, <<>>, <<>>>>,
      <<Punctuation, <<>>, <<>>>> }

\* the cluster field of a row; "" is an empty cell
ClusterLabels == {"", "Arts", "Science", "Trades"}

Rows ==
    { [full_name |-> n[1], given_name |-> n[2], surname |-> n[3], cluster |-> c] :
        n \in NameFields, c \in ClusterLabels }

\* Most records of a table of the toy data set
MaxToyRecords == 4

\* "Hans Schmidt", "Otto Müller", "Marie Curie", "Fritz Schmidt"
HansSchmidt  == <<72, 97, 110, 115, 32, 83, 99, 104, 109, 105, 100, 116>>
OttoMueller  == <<79, 116, 116, 111, 32, 77, 252, 108, 108, 101, 114>>
MarieCurie   == <<77, 97, 114, 105, 101, 32, 67, 117, 114, 105, 101>>
FritzSchmidt == <<70, 114, 105, 116, 122, 32, 83, 99, 104, 109, 105, 100, 116>>

ToyRow(name, c) ==
    [full_name |-> name, given_name |-> <<>>, surname |-> <<>>, cluster |-> c]

\* the rows of the toy data set, and the unlabeled row to score
ToyRows ==
    { ToyRow(HansSchmidt, "Trades"), ToyRow(OttoMueller, "Trades"),
      ToyRow(MarieCurie, "Science"), ToyRow(FritzSchmidt, "") }

RECURSIVE SeqsUpTo(_, _)
SeqsUpTo(S, n) ==
    IF n = 0 THEN {<<>>}
    ELSE LET shorter == SeqsUpTo(S, n - 1)
         IN  shorter \cup {Append(q, x) : q \in {r \in shorter : Len(r) = n - 1}, x \in S}

VARIABLES
    records,    \* the rows fetch_all_records returned, in table order
    pc,         \* where main is: "start", "scoring", "exit", "done", "crashed"
    model,      \* what learn_pmi returned
    idx,        \* index of the next record of the scoring loop
    results,    \* per record seen by the loop: skipped, or score_record's result
    patches,    \* the patch requests sent, in order
    updated,    \* the counter main prints at the end
    tin,        \* name_tokens alone: its arguments <<full, given, surname>>
    tpc,        \* "input", "tokenized", "passed back"; "off" in a run of main
    tout,       \* the tokens name_tokens returned for tin
    tback,      \* the tokens name_tokens returned for those tokens
    en_rows,    \* enricher: the rows fetch_all returned, in table order
    en_pc,      \* where its main is: "loop", "done"; "off" when it does not run
    en_idx,     \* index of the next row of its loop
    en_patches, \* the patch requests it sent, in order
    en_updated, \* the counter it prints at the end
    al_rows,    \* aligner: the rows fetch_all returned, in table order
    al_pc,      \* where its main is: "loop", "done"; "off" when it does not run
    al_idx,     \* index of the next row of its loop
    al_patches, \* the patch requests it sent, in order
    al_updated, \* the counter it prints at the end
    tier_in,    \* tier alone: its argument, a score <<hits, roots>>
    tier_out,   \* what tier returned; "input" before the call, "off" elsewhere
    hg_pc,      \* http_get: "loop", "returned", "raised"; "off" when it does not run
    hg_attempt, \* its loop variable attempt
    hg_sleep,   \* its local variable sleep
    hg_log,     \* per request sent: its outcome and the sleep that followed
    hg_result,  \* what the call handed back
    hv_pc,      \* harvester: "resolve", "fetch", "done", "crashed"; "off"
    hv_labels,  \* the number of its profession labels; label i is i
    hv_idx,     \* index of the next label of the loop it is in
    hv_map,     \* prof_map: the labels that resolved, in order
    hv_attempt, \* fetch_people_for_qid: its loop variable attempt
    hv_limit,   \* fetch_people_for_qid: its local variable limit
    hv_log,     \* per label and phase: what came of it
    hv_rows,    \* all_rows, a row being the label it was fetched for
    ag_pc,      \* discovery agent: "loop", "done"; "off" when it does not run
    ag_mode,    \* "open" or "strict"
    ag_occs,    \* the occupations of the chosen clusters, by kind
    ag_idx,     \* index of the next occupation
    ag_try,     \* run_sparql_with_retries: the tries that failed so far
    ag_log,     \* per occupation: the tries made and the rows kept
    ag_frames,  \* frames, a row being the occupation it was found for
    up_prog,    \* which CSV uploader runs; "off" when none does
    up_pc,      \* "create", "update", "done" (exit 0), "exit 1"; "off"
    up_create,  \* the records to create, in CSV order
    up_update,  \* push_to_airtable.py: the records to update, in CSV order
    up_i,       \* the loop variable i of the batch loop it is in
    up_attempt, \* upload_to_airtable.py: failed attempts for the batch at i
    up_log,     \* per batch sent: its records, the attempts, the last outcome
    up_written, \* the records the table took, in order
    fa_prog,    \* which fetch loop runs; "off" when none does
    fa_table,   \* the number of pages of the table
    fa_pc,      \* "loop", "returned", "failed" (HTTP error); "off"
    fa_offset,  \* its local variable offset (off): the last token, 0 for none
    fa_pages,   \* the pages fetched so far
    fa_recs,    \* recs: the pages whose records were appended, in order
    fa_req,     \* the parameters of the last request sent
    st_script,  \* the script that starts; "off" when none does
    st_env,     \* the AIRTABLE_* values present in its environment
    st_pc,      \* where its main is; "fatal", "returned", "running"; "off"
    st_requests,\* the network requests it has issued
    sc_avail,   \* analyzer main: avail, the field names of the table
    sc_pc,      \* "resolve", "loop", "done"; "off" when it does not run
    sc_map,     \* the fields resolved for each role
    sc_patch,   \* out_fields of the patch sent, {} when none was sent
    fw_avail,   \* field-aware uploader: avail, the field names of the table
    fw_kind,    \* what the schema says of the cluster field
    fw_rows,    \* the rows of the CSV file
    fw_pc,      \* "resolve", "read", "done", "died"; "off"
    fw_map,     \* the fields resolved for each role, and allowed_cluster
    fw_records, \* records: the fields of the record of each row read
    fw_sent,    \* the records the store took
    us_rows,    \* upsert: rows, the harvested rows
    us_table,   \* the records of the table
    us_pc,      \* "loop", "done"; "off" when it does not run
    us_idx,     \* index of the next row
    us_seen,    \* seen: the keys of the rows passed
    us_log,     \* per row written: the lookup's outcome and the write
    pq_people,  \* people query: the people who hold the occupation
    pq_pc,      \* "query", "extract", "returned", "failed"; "off"
    pq_binds,   \* binds: the result bindings of the answer
    pq_idx,     \* index of the next binding
    pq_rows,    \* rows
    ws_in,      \* the score <<hits, roots>> of a record
    ws_out,     \* the score and tier written for it; "input" before, "off"
    rr_table,   \* aligner run twice: the records of the table
    rr_run,     \* the run, 1 or 2
    rr_idx,     \* index of the next record of the run
    rr_first,   \* the table as the first run left it
    rr_pc,      \* "loop", "done"; "off" when it does not run
    pu_rows,    \* push_to_airtable.py: the ids of the CSV rows
    pu_table,   \* the number of records of the table, per id
    pu_before,  \* the same before the run
    pu_pc,      \* "fetch", "create", "update", "done", "exit 1"; "off"
    pu_create,  \* to_create, as ids
    pu_update,  \* to_update, as ids
    or_run,     \* orchestrator: what the run is given
    or_pc,      \* "preflight", "discovery", "ended"; "off"
    or_end,     \* how it ended: "exit n", "AttributeError"; "running" before
    or_stages   \* the stages it ran as subprocesses, in order

avars == <<records, pc, model, idx, results, patches, updated>>
tvars == <<tin, tpc, tout, tback>>
envars == <<en_rows, en_pc, en_idx, en_patches, en_updated>>
alvars == <<al_rows, al_pc, al_idx, al_patches, al_updated>>
tiervars == <<tier_in, tier_out>>
hgvars == <<hg_pc, hg_attempt, hg_sleep, hg_log, hg_result>>
hvvars == <<hv_pc, hv_labels, hv_idx, hv_map, hv_attempt, hv_limit, hv_log, hv_rows>>
agvars == <<ag_pc, ag_mode, ag_occs, ag_idx, ag_try, ag_log, ag_frames>>
upvars == <<up_prog, up_pc, up_create, up_update, up_i, up_attempt, up_log, up_written>>
favars == <<fa_prog, fa_table, fa_pc, fa_offset, fa_pages, fa_recs, fa_req>>
stvars == <<st_script, st_env, st_pc, st_requests>>
scvars == <<sc_avail, sc_pc, sc_map, sc_patch>>
fwvars == <<fw_avail, fw_kind, fw_rows, fw_pc, fw_map, fw_records, fw_sent>>
usvars == <<us_rows, us_table, us_pc, us_idx, us_seen, us_log>>
pqvars == <<pq_people, pq_pc, pq_binds, pq_idx, pq_rows>>
wsvars == <<ws_in, ws_out>>
rrvars == <<rr_table, rr_run, rr_idx, rr_first, rr_pc>>
puvars == <<pu_rows, pu_table, pu_before, pu_pc, pu_create, pu_update>>
orvars == <<or_run, or_pc, or_end, or_stages>>
vars == <<avars, tvars, envars, alvars, tiervars, hgvars, hvvars, agvars,
    upvars, favars, stvars, scvars, fwvars, usvars, pqvars, wsvars, rrvars,
    puvars, orvars>>

\* what each program leaves alone: the variables of the other programs
others_analyzer == <<tvars, envars, alvars, tiervars, hgvars, hvvars,
    agvars, upvars, favars, stvars, scvars, fwvars, usvars, pqvars, wsvars,
    rrvars, puvars, orvars>>
others_tok == <<avars, envars, alvars, tiervars, hgvars, hvvars, agvars,
    upvars, favars, stvars, scvars, fwvars, usvars, pqvars, wsvars, rrvars,
    puvars, orvars>>
others_enrich == <<avars, tvars, alvars, tiervars, hgvars, hvvars, agvars,
    upvars, favars, stvars, scvars, fwvars, usvars, pqvars, wsvars, rrvars,
    puvars, orvars>>
others_align == <<avars, tvars, envars, tiervars, hgvars, hvvars, agvars,
    upvars, favars, stvars, scvars, fwvars, usvars, pqvars, wsvars, rrvars,
    puvars, orvars>>
others_tier == <<avars, tvars, envars, alvars, hgvars, hvvars, agvars,
    upvars, favars, stvars, scvars, fwvars, usvars, pqvars, wsvars, rrvars,
    puvars, orvars>>
others_http_get == <<avars, tvars, envars, alvars, tiervars, hvvars,
    agvars, upvars, favars, stvars, scvars, fwvars, usvars, pqvars, wsvars,
    rrvars, puvars, orvars>>
others_harvester == <<avars, tvars, envars, alvars, tiervars, hgvars,
    agvars, upvars, favars, stvars, scvars, fwvars, usvars, pqvars, wsvars,
    rrvars, puvars, orvars>>
others_agent == <<avars, tvars, envars, alvars, tiervars, hgvars, hvvars,
    upvars, favars, stvars, scvars, fwvars, usvars, pqvars, wsvars, rrvars,
    puvars, orvars>>
others_uploader == <<avars, tvars, envars, alvars, tiervars, hgvars,
    hvvars, agvars, favars, stvars, scvars, fwvars, usvars, pqvars, wsvars,
    rrvars, puvars, orvars>>
others_fetcher == <<avars, tvars, envars, alvars, tiervars, hgvars, hvvars,
    agvars, upvars, stvars, scvars, fwvars, usvars, pqvars, wsvars, rrvars,
    puvars, orvars>>
others_startup == <<avars, tvars, envars, alvars, tiervars, hgvars, hvvars,
    agvars, upvars, favars, scvars, fwvars, usvars, pqvars, wsvars, rrvars,
    puvars, orvars>>
others_schema == <<avars, tvars, envars, alvars, tiervars, hgvars, hvvars,
    agvars, upvars, favars, stvars, fwvars, usvars, pqvars, wsvars, rrvars,
    puvars, orvars>>
others_field_aware == <<avars, tvars, envars, alvars, tiervars, hgvars,
    hvvars, agvars, upvars, favars, stvars, scvars, usvars, pqvars, wsvars,
    rrvars, puvars, orvars>>
others_upsert == <<avars, tvars, envars, alvars, tiervars, hgvars, hvvars,
    agvars, upvars, favars, stvars, scvars, fwvars, pqvars, wsvars, rrvars,
    puvars, orvars>>
others_people == <<avars, tvars, envars, alvars, tiervars, hgvars, hvvars,
    agvars, upvars, favars, stvars, scvars, fwvars, usvars, wsvars, rrvars,
    puvars, orvars>>
others_written == <<avars, tvars, envars, alvars, tiervars, hgvars, hvvars,
    agvars, upvars, favars, stvars, scvars, fwvars, usvars, pqvars, rrvars,
    puvars, orvars>>
others_rerun == <<avars, tvars, envars, alvars, tiervars, hgvars, hvvars,
    agvars, upvars, favars, stvars, scvars, fwvars, usvars, pqvars, wsvars,
    puvars, orvars>>
others_push == <<avars, tvars, envars, alvars, tiervars, hgvars, hvvars,
    agvars, upvars, favars, stvars, scvars, fwvars, usvars, pqvars, wsvars,
    rrvars, orvars>>
others_orchestrator == <<avars, tvars, envars, alvars, tiervars, hgvars,
    hvvars, agvars, upvars, favars, stvars, scvars, fwvars, usvars, pqvars,
    wsvars, rrvars, puvars>>

\* the variables of a program that does not run
AnalyzerOff ==
    /\ records = <<>> /\ pc = "off" /\ model = learn_pmi(<<>>) /\ idx = 1
    /\ results = <<>> /\ patches = <<>> /\ updated = 0

TokOff == tin = <<<<>>, <<>>, <<>>>> /\ tpc = "off" /\ tout = {} /\ tback = {}

EnrichOff ==
    /\ en_rows = <<>> /\ en_pc = "off" /\ en_idx = 1
    /\ en_patches = <<>> /\ en_updated = 0

AlignOff ==
    /\ al_rows = <<>> /\ al_pc = "off" /\ al_idx = 1
    /\ al_patches = <<>> /\ al_updated = 0

TierOff == tier_in = <<0, 1>> /\ tier_out = "off"

HttpGetOff ==
    /\ hg_pc = "off" /\ hg_attempt = 1 /\ hg_sleep = 0
    /\ hg_log = <<>> /\ hg_result = [kind |-> "off", status |-> 0]

HarvestOff ==
    /\ hv_pc = "off" /\ hv_labels = 0 /\ hv_idx = 1 /\ hv_map = <<>>
    /\ hv_attempt = 1 /\ hv_limit = 0
    /\ hv_log = <<>> /\ hv_rows = <<>>

AgentOff ==
    /\ ag_pc = "off" /\ ag_mode = "off" /\ ag_occs = <<>> /\ ag_idx = 1
    /\ ag_try = 0 /\ ag_log = <<>> /\ ag_frames = <<>>

UploadOff ==
    /\ up_prog = "off" /\ up_pc = "off" /\ up_create = <<>> /\ up_update = <<>>
    /\ up_i = 0 /\ up_attempt = 0 /\ up_log = <<>> /\ up_written = <<>>

FetchOff ==
    /\ fa_prog = "off" /\ fa_table = 0 /\ fa_pc = "off" /\ fa_offset = 0
    /\ fa_pages = 0 /\ fa_recs = <<>> /\ fa_req = [pageSize |-> 0, offset |-> 0]

StartupOff ==
    /\ st_script = "off" /\ st_env = {} /\ st_pc = "off" /\ st_requests = 0

SchemaOff ==
    /\ sc_avail = <<>> /\ sc_pc = "off" /\ sc_map = <<>> /\ sc_patch = {}

FieldAwareOff ==
    /\ fw_avail = <<>> /\ fw_kind = "off" /\ fw_rows = <<>> /\ fw_pc = "off"
    /\ fw_map = <<>> /\ fw_records = <<>> /\ fw_sent = <<>>

UpsertOff ==
    /\ us_rows = <<>> /\ us_table = {} /\ us_pc = "off" /\ us_idx = 1
    /\ us_seen = {} /\ us_log = <<>>

PeopleOff ==
    /\ pq_people = <<>> /\ pq_pc = "off" /\ pq_binds = <<>> /\ pq_idx = 1
    /\ pq_rows = <<>>

WrittenOff ==
    /\ ws_in = <<0, 1>> /\ ws_out = [etymology_score |-> 0, etymology_match |-> "off"]

RerunOff ==
    /\ rr_table = <<>> /\ rr_run = 1 /\ rr_idx = 1 /\ rr_first = <<>>
    /\ rr_pc = "off"

PushOff ==
    /\ pu_rows = <<>> /\ pu_table = <<>> /\ pu_before = <<>> /\ pu_pc = "off"
    /\ pu_create = <<>> /\ pu_update = <<>>

OrchOff ==
    /\ or_run = <<>> /\ or_pc = "off" /\ or_end = "off" /\ or_stages = <<>>

\* every program but the running ones is off
ProgramsOff(running) ==
    /\ IF "analyzer" \in running THEN TRUE ELSE AnalyzerOff
    /\ IF "name_tokens" \in running THEN TRUE ELSE TokOff
    /\ IF "enricher" \in running THEN TRUE ELSE EnrichOff
    /\ IF "aligner" \in running THEN TRUE ELSE AlignOff
    /\ IF "tier" \in running THEN TRUE ELSE TierOff
    /\ IF "http_get" \in running THEN TRUE ELSE HttpGetOff
    /\ IF "harvester" \in running THEN TRUE ELSE HarvestOff
    /\ IF "agent" \in running THEN TRUE ELSE AgentOff
    /\ IF "uploader" \in running THEN TRUE ELSE UploadOff
    /\ IF "fetcher" \in running THEN TRUE ELSE FetchOff
    /\ IF "startup" \in running THEN TRUE ELSE StartupOff
    /\ IF "schema" \in running THEN TRUE ELSE SchemaOff
    /\ IF "field_aware" \in running THEN TRUE ELSE FieldAwareOff
    /\ IF "upsert" \in running THEN TRUE ELSE UpsertOff
    /\ IF "people" \in running THEN TRUE ELSE PeopleOff
    /\ IF "written" \in running THEN TRUE ELSE WrittenOff
    /\ IF "rerun" \in running THEN TRUE ELSE RerunOff
    /\ IF "push" \in running THEN TRUE ELSE PushOff
    /\ IF "orchestrator" \in running THEN TRUE ELSE OrchOff

Start ==
    /\ ProgramsOff({"analyzer"})
    /\ pc = "start"
    /\ model = learn_pmi(<<>>)
    /\ idx = 1
    /\ results = <<>>
    /\ patches = <<>>
    /\ updated = 0

Init == records \in SeqsUpTo(Rows, MaxRecords) /\ Start

InitToy == records \in SeqsUpTo(ToyRows, MaxToyRecords) /\ Start

HasMathError(m) ==
    \E c \in DOMAIN m.pmi : \E t \in DOMAIN m.pmi[c] : m.pmi[c][t] = MathError

\* main up to the scoring loop: learn, then sys.exit when nothing was learned
Learn ==
    /\ pc = "start"
    /\ LET m == learn_pmi(records)
       IN  /\ model' = m
           /\ pc' = IF HasMathError(m) THEN "crashed"
                    ELSE IF m.N = 0 \/ DOMAIN m.pmi = {} THEN "exit"
                    ELSE "scoring"
    /\ UNCHANGED <<records, idx, results, patches, updated, others_analyzer>>

\* the statuses a patch request is answered with
PatchStatuses == {200, 422}

\* one iteration of "for rec in records" of main
ScoreNext ==
    /\ pc = "scoring"
    /\ idx <= Len(records)
    /\ idx' = idx + 1
    /\ LET rec  == records[idx]
           toks == name_tokens(rec.full_name, rec.given_name, rec.surname)
           res  == score_record(toks, model.pmi, model.clusters)
       IN  IF toks = {}
           THEN /\ results' = Append(results, [skipped |-> TRUE, id |-> idx])
                /\ UNCHANGED <<patches, updated>>
           ELSE /\ results' = Append(results,
                       [skipped |-> FALSE, id |-> idx, tokens |-> toks] @@ res)
                /\ patches' = Append(patches,
                       [id |-> idx, np_cluster_pred |-> res.best_c, gap |-> res.gap])
                /\ \E status \in PatchStatuses :
                       updated' = IF status >= 400 THEN updated ELSE updated + 1
    /\ UNCHANGED <<records, pc, model, others_analyzer>>

\* the loop is over: the summary line
Finish ==
    /\ pc = "scoring"
    /\ idx > Len(records)
    /\ pc' = "done"
    /\ UNCHANGED <<records, model, idx, results, patches, updated,
                   others_analyzer>>

Next == Learn \/ ScoreNext \/ Finish

Spec == Init /\ [][Next]_vars

\* the same program run on tables of the toy data set
SpecToy == InitToy /\ [][Next]_vars


(***************************************************************************)
(* name_tokens on its own: called on name fields, then on its own output   *)
(***************************************************************************)

\* Longest full name given alone; longest full name given with the other
\* fields, and longest given name or surname; most tokens passed back
MaxNameLen == 9
MaxShortLen == 3
MaxPartLen == 2
MaxPassBack == 3

\* "a", "B", " " and "-": a letter, a capital, a blank, a punctuation mark
NameChars == {97, 66, 32}
PartChars == {97, 66, 45}

RECURSIVE StringsUpTo(_, _)
StringsUpTo(chars, n) ==
    IF n = 0 THEN {<<>>}
    ELSE LET shorter == StringsUpTo(chars, n - 1)
         IN  shorter \cup
             {Append(q, x) : q \in {r \in shorter : Len(r) = n - 1}, x \in chars}

InitTok ==
    /\ tin \in (StringsUpTo(NameChars, MaxNameLen) \X {<<>>} \X {<<>>})
               \cup (StringsUpTo(NameChars, MaxShortLen)
                        \X StringsUpTo(PartChars, MaxPartLen)
                        \X StringsUpTo(PartChars, MaxPartLen))
    /\ tpc = "input"
    /\ tout = {}
    /\ tback = {}
    /\ ProgramsOff({"name_tokens"})

Tokenize ==
    /\ tpc = "input"
    /\ tout' = name_tokens(tin[1], tin[2], tin[3])
    /\ tpc' = "tokenized"
    /\ UNCHANGED <<tin, tback, others_tok>>

\* " ".join(order)
RECURSIVE JoinBlank(_)
JoinBlank(order) ==
    IF order = <<>> THEN <<>>
    ELSE IF Len(order) = 1 THEN order[1]
    ELSE order[1] \o <<32>> \o JoinBlank(Tail(order))

\* the lists that hold each element of S once
Orders(S) ==
    LET n == Cardinality(S)
    IN  {f \in [1..n -> S] : \A a, b \in 1..n : f[a] = f[b] => a = b}

\* the tokens go back into name_tokens as one plain string, in some order
PassBack ==
    /\ tpc = "tokenized"
    /\ Cardinality(tout) <= MaxPassBack
    /\ \E order \in Orders(tout) :
          tback' = name_tokens(JoinBlank(order), <<>>, <<>>)
    /\ tpc' = "passed back"
    /\ UNCHANGED <<tin, tout, others_tok>>

NextTok == Tokenize \/ PassBack

SpecTok == InitTok /\ [][NextTok]_vars

(***************************************************************************)
(* enrich_etymology.py: text cleaning, the lexicons and derive             *)
(***************************************************************************)

\* unicodedata.normalize('NFD', c) without its combining marks (category Mn),
\* on one code point of the Latin-1 range
StripDiacritic(ch) ==
    IF ch \in 192..197 THEN 65
    ELSE IF ch = 199 THEN 67
    ELSE IF ch \in 200..203 THEN 69
    ELSE IF ch \in 204..207 THEN 73
    ELSE IF ch = 209 THEN 78
    ELSE IF ch \in 210..214 THEN 79
    ELSE IF ch \in 217..220 THEN 85
    ELSE IF ch = 221 THEN 89
    ELSE IF ch \in 224..229 THEN 97
    ELSE IF ch = 231 THEN 99
    ELSE IF ch \in 232..235 THEN 101
    ELSE IF ch \in 236..239 THEN 105
    ELSE IF ch = 241 THEN 110
    ELSE IF ch \in 242..246 THEN 111
    ELSE IF ch \in 249..252 THEN 117
    ELSE IF ch \in {253, 255} THEN 121
    ELSE ch

strip_diacritics(s) == [i \in 1..Len(s) |-> StripDiacritic(s[i])]

\* str.strip()
RECURSIVE StripLeft(_)
StripLeft(s) ==
    IF s # <<>> /\ IsSpace(Head(s)) THEN StripLeft(Tail(s)) ELSE s

RECURSIVE StripRight(_)
StripRight(s) ==
    IF s # <<>> /\ IsSpace(s[Len(s)])
    THEN StripRight(SubSeq(s, 1, Len(s) - 1)) ELSE s

Strip(s) == StripRight(StripLeft(s))

\* clean of enrich_etymology.py:
\* re.sub(r"[^a-z\s\-]", " ", strip_diacritics(s).lower()).strip()
enrich_clean(s) ==
    LET low == [i \in 1..Len(s) |-> LowerChar(strip_diacritics(s)[i])]
    IN  Strip([i \in 1..Len(s) |->
                 IF low[i] \in 97..122 \/ IsSpace(low[i]) \/ low[i] = 45
                 THEN low[i] ELSE 32])

\* toks(s): [t for t in clean(s).split() if len(t) >= 2]
enrich_toks(s) == SelectSeq(split_ws(enrich_clean(s)), LAMBDA t : Len(t) >= 2)

\* re.findall(r"[a-z]+", s): the maximal runs of a-z, left to right
RECURSIVE FindAllFrom(_, _, _, _)
FindAllFrom(s, i, cur, acc) ==
    IF i > Len(s)
    THEN IF cur = <<>> THEN acc ELSE Append(acc, cur)
    ELSE IF s[i] \in 97..122
         THEN FindAllFrom(s, i + 1, Append(cur, s[i]), acc)
         ELSE FindAllFrom(s, i + 1, <<>>,
                          IF cur = <<>> THEN acc ELSE Append(acc, cur))

findall_az(s) == FindAllFrom(s, 1, <<>>, <<>>)

\* str.title() on a cleaned token: a letter that follows no letter is raised
title(s) ==
    [i \in 1..Len(s) |->
        IF s[i] \in 97..122 /\ (i = 1 \/ s[i - 1] \notin 97..122)
        THEN s[i] - 32 ELSE s[i]]

\* a < b as Python compares strings
RECURSIVE LexLess(_, _)
LexLess(a, b) ==
    IF b = <<>> THEN FALSE
    ELSE IF a = <<>> THEN TRUE
    ELSE IF Head(a) # Head(b) THEN Head(a) < Head(b)
    ELSE LexLess(Tail(a), Tail(b))

\* list(sorted(S))
RECURSIVE SortedList(_)
SortedList(S) ==
    IF S = {} THEN <<>>
    ELSE LET m == CHOOSE x \in S : \A y \in S \ {x} : LexLess(x, y)
         IN  <<m>> \o SortedList(S \ {m})

\* given-name lexicon: cleaned name -> meaning, roots, origin, source tag
GIVEN ==
    \* "nikola": ['nike', 'laos']
    <<110, 105, 107, 111, 108, 97>> :>
        [meaning |-> "victory of the people", roots |-> <<<<110, 105, 107, 101>>, <<108, 97, 111, 115>>>>,
         origin |-> "Greek", src |-> "lexicon"] @@
    \* "ada": ['noble']
    <<97, 100, 97>> :>
        [meaning |-> "noble", roots |-> <<<<110, 111, 98, 108, 101>>>>,
         origin |-> "Germanic", src |-> "lexicon"] @@
    \* "leonardo": ['leo', 'hard']
    <<108, 101, 111, 110, 97, 114, 100, 111>> :>
        [meaning |-> "lion-strong", roots |-> <<<<108, 101, 111>>, <<104, 97, 114, 100>>>>,
         origin |-> "Germanic+Latin", src |-> "lexicon"] @@
    \* "gustav": ['goth', 'staff']
    <<103, 117, 115, 116, 97, 118>> :>
        [meaning |-> "staff of the Goths", roots |-> <<<<103, 111, 116, 104>>, <<115, 116, 97, 102, 102>>>>,
         origin |-> "Germanic", src |-> "lexicon"] @@
    \* "wilhelm": ['will', 'helm']
    <<119, 105, 108, 104, 101, 108, 109>> :>
        [meaning |-> "will-helmet", roots |-> <<<<119, 105, 108, 108>>, <<104, 101, 108, 109>>>>,
         origin |-> "Germanic", src |-> "lexicon"] @@
    \* "willi": ['will', 'helm']
    <<119, 105, 108, 108, 105>> :>
        [meaning |-> "will-helmet", roots |-> <<<<119, 105, 108, 108>>, <<104, 101, 108, 109>>>>,
         origin |-> "Germanic", src |-> "lexicon"] @@
    \* "willy": ['will', 'helm']
    <<119, 105, 108, 108, 121>> :>
        [meaning |-> "will-helmet", roots |-> <<<<119, 105, 108, 108>>, <<104, 101, 108, 109>>>>,
         origin |-> "Germanic", src |-> "lexicon"] @@
    \* "august": ['venerable']
    <<97, 117, 103, 117, 115, 116>> :>
        [meaning |-> "venerable", roots |-> <<<<118, 101, 110, 101, 114, 97, 98, 108, 101>>>>,
         origin |-> "Latin", src |-> "lexicon"] @@
    \* "rudolf": ['fame', 'wolf']
    <<114, 117, 100, 111, 108, 102>> :>
        [meaning |-> "fame-wolf", roots |-> <<<<102, 97, 109, 101>>, <<119, 111, 108, 102>>>>,
         origin |-> "Germanic", src |-> "lexicon"] @@
    \* "paul": ['small', 'humble']
    <<112, 97, 117, 108>> :>
        [meaning |-> "small; humble", roots |-> <<<<115, 109, 97, 108, 108>>, <<104, 117, 109, 98, 108, 101>>>>,
         origin |-> "Latin", src |-> "lexicon"] @@
    \* "anton": ['priceless', 'invaluable']
    <<97, 110, 116, 111, 110>> :>
        [meaning |-> "priceless; invaluable", roots |-> <<<<112, 114, 105, 99, 101, 108, 101, 115, 115>>, <<105, 110, 118, 97, 108, 117, 97, 98, 108, 101>>>>,
         origin |-> "Latin", src |-> "lexicon"] @@
    \* "albrecht": ['noble', 'bright']
    <<97, 108, 98, 114, 101, 99, 104, 116>> :>
        [meaning |-> "noble-bright", roots |-> <<<<110, 111, 98, 108, 101>>, <<98, 114, 105, 103, 104, 116>>>>,
         origin |-> "Germanic", src |-> "lexicon"] @@
    \* "georg": ['earth', 'work', 'farmer']
    <<103, 101, 111, 114, 103>> :>
        [meaning |-> "earth-worker; farmer", roots |-> <<<<101, 97, 114, 116, 104>>, <<119, 111, 114, 107>>, <<102, 97, 114, 109, 101, 114>>>>,
         origin |-> "Greek", src |-> "lexicon"] @@
    \* "jorg": ['earth', 'work', 'farmer']
    <<106, 111, 114, 103>> :>
        [meaning |-> "earth-worker; farmer", roots |-> <<<<101, 97, 114, 116, 104>>, <<119, 111, 114, 107>>, <<102, 97, 114, 109, 101, 114>>>>,
         origin |-> "Greek", src |-> "lexicon"] @@
    \* "joerg": ['earth', 'work', 'farmer']
    <<106, 111, 101, 114, 103>> :>
        [meaning |-> "earth-worker; farmer", roots |-> <<<<101, 97, 114, 116, 104>>, <<119, 111, 114, 107>>, <<102, 97, 114, 109, 101, 114>>>>,
         origin |-> "Greek", src |-> "lexicon"] @@
    \* "george": ['earth', 'work', 'farmer']
    <<103, 101, 111, 114, 103, 101>> :>
        [meaning |-> "earth-worker; farmer", roots |-> <<<<101, 97, 114, 116, 104>>, <<119, 111, 114, 107>>, <<102, 97, 114, 109, 101, 114>>>>,
         origin |-> "Greek", src |-> "lexicon"] @@
    \* "emil": ['rival']
    <<101, 109, 105, 108>> :>
        [meaning |-> "rival", roots |-> <<<<114, 105, 118, 97, 108>>>>,
         origin |-> "Latin", src |-> "lexicon"] @@
    \* "heinrich": ['home', 'ruler']
    <<104, 101, 105, 110, 114, 105, 99, 104>> :>
        [meaning |-> "home-ruler", roots |-> <<<<104, 111, 109, 101>>, <<114, 117, 108, 101, 114>>>>,
         origin |-> "Germanic", src |-> "lexicon"] @@
    \* "heinz": ['home', 'ruler']
    <<104, 101, 105, 110, 122>> :>
        [meaning |-> "home-ruler", roots |-> <<<<104, 111, 109, 101>>, <<114, 117, 108, 101, 114>>>>,
         origin |-> "Germanic", src |-> "lexicon"] @@
    \* "arthur": ['bear', 'man']
    <<97, 114, 116, 104, 117, 114>> :>
        [meaning |-> "bear-man", roots |-> <<<<98, 101, 97, 114>>, <<109, 97, 110>>>>,
         origin |-> "Celtic", src |-> "lexicon"] @@
    \* "friedrich": ['peace', 'ruler']
    <<102, 114, 105, 101, 100, 114, 105, 99, 104>> :>
        [meaning |-> "peace-ruler", roots |-> <<<<112, 101, 97, 99, 101>>, <<114, 117, 108, 101, 114>>>>,
         origin |-> "Germanic", src |-> "lexicon"] @@
    \* "jean": ['god', 'grace']
    <<106, 101, 97, 110>> :>
        [meaning |-> "God is gracious", roots |-> <<<<103, 111, 100>>, <<103, 114, 97, 99, 101>>>>,
         origin |-> "Hebrew->French", src |-> "lexicon"] @@
    \* "otto": ['wealth', 'prosperity']
    <<111, 116, 116, 111>> :>
        [meaning |-> "wealth, prosperity", roots |-> <<<<119, 101, 97, 108, 116, 104>>, <<112, 114, 111, 115, 112, 101, 114, 105, 116, 121>>>>,
         origin |-> "Germanic", src |-> "lexicon"] @@
    \* "galileo": ['galilee', 'place']
    <<103, 97, 108, 105, 108, 101, 111>> :>
        [meaning |-> "from Galilee (place)", roots |-> <<<<103, 97, 108, 105, 108, 101, 101>>, <<112, 108, 97, 99, 101>>>>,
         origin |-> "Hebrew/Latin", src |-> "lexicon"] @@
    \* "michelangelo": ['michael', 'angel']
    <<109, 105, 99, 104, 101, 108, 97, 110, 103, 101, 108, 111>> :>
        [meaning |-> "Michael + messenger", roots |-> <<<<109, 105, 99, 104, 97, 101, 108>>, <<97, 110, 103, 101, 108>>>>,
         origin |-> "Hebrew/Greek", src |-> "lexicon"]

\* surname lexicon
SURNAME ==
    \* "tesla": ['adze', 'carpenter']
    <<116, 101, 115, 108, 97>> :>
        [meaning |-> "adze; carpenter", roots |-> <<<<97, 100, 122, 101>>, <<99, 97, 114, 112, 101, 110, 116, 101, 114>>>>,
         origin |-> "Slavic", src |-> "lexicon"] @@
    \* "smith": ['smith', 'metal', 'forge']
    <<115, 109, 105, 116, 104>> :>
        [meaning |-> "metalworker", roots |-> <<<<115, 109, 105, 116, 104>>, <<109, 101, 116, 97, 108>>, <<102, 111, 114, 103, 101>>>>,
         origin |-> "English", src |-> "lexicon"] @@
    \* "miller": ['mill', 'grain']
    <<109, 105, 108, 108, 101, 114>> :>
        [meaning |-> "operates a mill", roots |-> <<<<109, 105, 108, 108>>, <<103, 114, 97, 105, 110>>>>,
         origin |-> "English", src |-> "lexicon"] @@
    \* "baker": ['bake', 'bread', 'oven']
    <<98, 97, 107, 101, 114>> :>
        [meaning |-> "bakes bread", roots |-> <<<<98, 97, 107, 101>>, <<98, 114, 101, 97, 100>>, <<111, 118, 101, 110>>>>,
         origin |-> "English", src |-> "lexicon"] @@
    \* "fisher": ['fish', 'river']
    <<102, 105, 115, 104, 101, 114>> :>
        [meaning |-> "fisher", roots |-> <<<<102, 105, 115, 104>>, <<114, 105, 118, 101, 114>>>>,
         origin |-> "English", src |-> "lexicon"] @@
    \* "carpenter": ['wood', 'carpenter']
    <<99, 97, 114, 112, 101, 110, 116, 101, 114>> :>
        [meaning |-> "woodworker", roots |-> <<<<119, 111, 111, 100>>, <<99, 97, 114, 112, 101, 110, 116, 101, 114>>>>,
         origin |-> "French/Latin", src |-> "lexicon"] @@
    \* "painter": ['paint', 'color']
    <<112, 97, 105, 110, 116, 101, 114>> :>
        [meaning |-> "painter", roots |-> <<<<112, 97, 105, 110, 116>>, <<99, 111, 108, 111, 114>>>>,
         origin |-> "English", src |-> "lexicon"] @@
    \* "da vinci": ['vinci', 'place']
    <<100, 97, 32, 118, 105, 110, 99, 105>> :>
        [meaning |-> "from Vinci (place)", roots |-> <<<<118, 105, 110, 99, 105>>, <<112, 108, 97, 99, 101>>>>,
         origin |-> "Italian", src |-> "lexicon"]

\* spelling variants of occupational surnames -> the occupation
OCC_VAR ==
    \* "schmidt"
    <<115, 99, 104, 109, 105, 100, 116>> :> "smith" @@
    \* "schmitt"
    <<115, 99, 104, 109, 105, 116, 116>> :> "smith" @@
    \* "schmid"
    <<115, 99, 104, 109, 105, 100>> :> "smith" @@
    \* "schmied"
    <<115, 99, 104, 109, 105, 101, 100>> :> "smith" @@
    \* "muller"
    <<109, 117, 108, 108, 101, 114>> :> "miller" @@
    \* "mueller"
    <<109, 117, 101, 108, 108, 101, 114>> :> "miller" @@
    \* "miller"
    <<109, 105, 108, 108, 101, 114>> :> "miller" @@
    \* "backer"
    <<98, 97, 99, 107, 101, 114>> :> "baker" @@
    \* "baecker"
    <<98, 97, 101, 99, 107, 101, 114>> :> "baker" @@
    \* "backmann"
    <<98, 97, 99, 107, 109, 97, 110, 110>> :> "baker" @@
    \* "fischer"
    <<102, 105, 115, 99, 104, 101, 114>> :> "fisher" @@
    \* "schneider"
    <<115, 99, 104, 110, 101, 105, 100, 101, 114>> :> "tailor" @@
    \* "zimmermann"
    <<122, 105, 109, 109, 101, 114, 109, 97, 110, 110>> :> "carpenter" @@
    \* "zimmerman"
    <<122, 105, 109, 109, 101, 114, 109, 97, 110>> :> "carpenter" @@
    \* "bauer"
    <<98, 97, 117, 101, 114>> :> "farmer"

\* "von", "van", "de", "da", "di"
LOC_PREFIXES == {<<118, 111, 110>>, <<118, 97, 110>>, <<100, 101>>, <<100, 97>>, <<100, 105>>}

\* the roots step 4 of derive adds for an occupation
OccRoots ==
    \* mill, grain
    "miller" :>
        {<<109, 105, 108, 108>>, <<103, 114, 97, 105, 110>>} @@
    \* bake, bread, oven
    "baker" :>
        {<<98, 97, 107, 101>>, <<98, 114, 101, 97, 100>>, <<111, 118, 101, 110>>} @@
    \* fish, river
    "fisher" :>
        {<<102, 105, 115, 104>>, <<114, 105, 118, 101, 114>>} @@
    \* tailor, cut, cloth
    "tailor" :>
        {<<116, 97, 105, 108, 111, 114>>, <<99, 117, 116>>, <<99, 108, 111, 116, 104>>} @@
    \* carpenter, wood
    "carpenter" :>
        {<<99, 97, 114, 112, 101, 110, 116, 101, 114>>, <<119, 111, 111, 100>>} @@
    \* smith, metal, forge
    "smith" :>
        {<<115, 109, 105, 116, 104>>, <<109, 101, 116, 97, 108>>, <<102, 111, 114, 103, 101>>} @@
    \* farmer, field, earth
    "farmer" :>
        {<<102, 97, 114, 109, 101, 114>>, <<102, 105, 101, 108, 100>>, <<101, 97, 114, 116, 104>>}

\* "place"
PlaceRoot == <<112, 108, 97, 99, 101>>

\* one fragment of the gloss: a lexicon meaning or an occupation name, or
\* "from <Place>" (text "from", with the place)
GlossPart(text, place) == [text |-> text, place |-> place]

\* " ".join(words)
RECURSIVE JoinWords(_)
JoinWords(words) ==
    IF words = <<>> THEN <<>>
    ELSE IF Len(words) = 1 THEN words[1]
    ELSE words[1] \o <<32>> \o JoinWords(Tail(words))

\* step 6 of derive: roots.update(toks(gn)); roots.update(toks(sk))
FallbackRoots(gn, sk) == Range(enrich_toks(gn)) \cup Range(enrich_toks(sk))

\* derive(full, given, sur): (sorted roots, gloss fragments, source tags)
derive(full, given, sur) ==
    LET fk    == enrich_clean(full)
        gk    == enrich_clean(given)
        sk    == enrich_clean(sur)
        ftoks == split_ws(fk)
        gn    == IF gk # <<>> THEN gk
                 ELSE IF fk # <<>> THEN ftoks[1] ELSE <<>>
        given_hit == gn \in DOMAIN GIVEN
        loc_hit   == ftoks # <<>> /\ ftoks[1] \in LOC_PREFIXES /\ Len(ftoks) >= 2
        s_try  == IF sk # <<>> THEN sk
                  ELSE IF fk # <<>> /\ Len(ftoks) > 1 THEN JoinWords(Tail(ftoks))
                  ELSE <<>>
        s_words == split_ws(s_try)
        s_last == IF s_try # <<>> THEN s_words[Len(s_words)] ELSE <<>>
        sur_keys == IF s_try \in DOMAIN SURNAME THEN <<s_try>>
                    ELSE IF s_last \in DOMAIN SURNAME THEN <<s_last>>
                    ELSE <<>>
        occ_hit == sk \in DOMAIN OCC_VAR
        comp    == findall_az(sk)
        roots ==
            (IF given_hit THEN Range(GIVEN[gn].roots) ELSE {})
            \cup (IF loc_hit THEN {PlaceRoot, ftoks[Len(ftoks)]} ELSE {})
            \cup UNION {Range(SURNAME[k].roots) : k \in Range(sur_keys)}
            \cup (IF occ_hit THEN OccRoots[OCC_VAR[sk]] ELSE {})
            \cup (IF Len(comp) >= 2 THEN Range(comp) ELSE {})
            \cup FallbackRoots(gn, sk)
        parts ==
            (IF given_hit THEN <<GlossPart(GIVEN[gn].meaning, <<>>)>> ELSE <<>>)
            \o (IF loc_hit THEN <<GlossPart("from", title(ftoks[Len(ftoks)]))>>
                ELSE <<>>)
            \o [i \in DOMAIN sur_keys |-> GlossPart(SURNAME[sur_keys[i]].meaning, <<>>)]
            \o (IF occ_hit THEN <<GlossPart(OCC_VAR[sk], <<>>)>> ELSE <<>>)
        notes ==
            (IF given_hit THEN {GIVEN[gn].src} ELSE {})
            \cup (IF loc_hit THEN {"heuristic"} ELSE {})
            \cup {SURNAME[k].src : k \in Range(sur_keys)}
            \cup (IF occ_hit THEN {"heuristic"} ELSE {})
            \cup (IF Len(comp) >= 2 THEN {"compound"} ELSE {})
    IN  [roots |-> SortedList(roots),
         gloss |-> parts,
         src   |-> IF notes = {} THEN {"heuristic"} ELSE notes]

(***************************************************************************)
(* enrich_etymology.py: main, one run over a table                         *)
(***************************************************************************)

\* Most records of the table the enricher runs on
MaxEnrichRecords == 2

\* " ", "J", "Nikola Tesla", "von Braun", "Leonardo da Vinci", "Jörg",
\* "Müller", "Schwarz-Kopf", "Smith"
Blank           == <<32>>
LetterJ         == <<74>>
NikolaTesla     == <<78, 105, 107, 111, 108, 97, 32, 84, 101, 115, 108, 97>>
VonBraun        == <<118, 111, 110, 32, 66, 114, 97, 117, 110>>
LeonardoDaVinci == <<76, 101, 111, 110, 97, 114, 100, 111, 32, 100, 97, 32, 86, 105, 110, 99, 105>>
Joerg           == <<74, 246, 114, 103>>
Mueller         == <<77, 252, 108, 108, 101, 114>>
SchwarzKopf     == <<83, 99, 104, 119, 97, 114, 122, 45, 75, 111, 112, 102>>
Smith           == <<83, 109, 105, 116, 104>>

\* the name fields of a row: full name, then given name and surname
EnrichFullNames ==
    {<<>>, Blank, Punctuation, LetterJ, NikolaTesla, VonBraun, LeonardoDaVinci}

EnrichNameParts ==
    {<<<<>>, <<>>>>, <<Joerg, Mueller>>, <<<<>>, SchwarzKopf>>, <<<<>>, Smith>>}

\* the other fields main reads: name_meaning, language_origin, name_origin
EnrichExtras ==
    {<<"", "", "">>, <<"Meaning: kept", "de", "">>, <<"", "", "la">>}

EnrichRows ==
    { [full_name |-> n, given_name |-> p[1], surname |-> p[2],
       name_meaning |-> x[1], language_origin |-> x[2], name_origin |-> x[3]] :
        n \in EnrichFullNames, p \in EnrichNameParts, x \in EnrichExtras }

InitEnrich ==
    /\ en_rows \in SeqsUpTo(EnrichRows, MaxEnrichRecords)
    /\ en_pc = "loop"
    /\ en_idx = 1
    /\ en_patches = <<>>
    /\ en_updated = 0
    /\ ProgramsOff({"enricher"})

\* one iteration of "for rec in rows" of main
EnrichNext ==
    /\ en_pc = "loop"
    /\ en_idx <= Len(en_rows)
    /\ en_idx' = en_idx + 1
    /\ LET f      == en_rows[en_idx]
           d      == derive(f.full_name, f.given_name, f.surname)
           origin == IF f.language_origin # "" THEN f.language_origin
                     ELSE f.name_origin
           out    == [id               |-> en_idx,
                      name_roots       |-> d.roots,
                      etymology_source |-> d.src,
                      \* written only when there is a gloss and the cell is empty
                      name_meaning     |-> IF d.gloss # <<>> /\ f.name_meaning = ""
                                           THEN d.gloss ELSE <<>>,
                      \* written only when the row has an origin
                      name_origin      |-> origin]
       IN  IF f.full_name = <<>> /\ f.given_name = <<>> /\ f.surname = <<>>
           THEN UNCHANGED <<en_patches, en_updated>>
           ELSE /\ en_patches' = Append(en_patches, out)
                /\ \E status \in PatchStatuses :
                       en_updated' = IF status < 400 THEN en_updated + 1
                                     ELSE en_updated
    /\ UNCHANGED <<en_rows, en_pc, others_enrich>>

\* the loop is over: the summary line
EnrichFinish ==
    /\ en_pc = "loop"
    /\ en_idx > Len(en_rows)
    /\ en_pc' = "done"
    /\ UNCHANGED <<en_rows, en_idx, en_patches, en_updated,
                   others_enrich>>

NextEnrich == EnrichNext \/ EnrichFinish

SpecEnrich == InitEnrich /\ [][NextEnrich]_vars

(***************************************************************************)
(* score_etymology_to_profession.py: score_alignment, tier and main        *)
(* A score is the rational <<hits, roots>>; float rounding is not modelled.*)
(***************************************************************************)

\* profession keywords: lower-case label -> keyword set
KEYWORDS ==
    \* "engineer": adze, build, carpenter, craft, device, engine, forge, machine, make, metal, smith, wood
    <<101, 110, 103, 105, 110, 101, 101, 114>> :>
        {<<97, 100, 122, 101>>, <<98, 117, 105, 108, 100>>,
          <<99, 97, 114, 112, 101, 110, 116, 101, 114>>,
          <<99, 114, 97, 102, 116>>, <<100, 101, 118, 105, 99, 101>>,
          <<101, 110, 103, 105, 110, 101>>, <<102, 111, 114, 103, 101>>,
          <<109, 97, 99, 104, 105, 110, 101>>, <<109, 97, 107, 101>>,
          <<109, 101, 116, 97, 108>>, <<115, 109, 105, 116, 104>>,
          <<119, 111, 111, 100>>} @@
    \* "artist": art, color, craft, create, design, draw, lace, paint, sculpt
    <<97, 114, 116, 105, 115, 116>> :>
        {<<97, 114, 116>>, <<99, 111, 108, 111, 114>>,
          <<99, 114, 97, 102, 116>>, <<99, 114, 101, 97, 116, 101>>,
          <<100, 101, 115, 105, 103, 110>>, <<100, 114, 97, 119>>,
          <<108, 97, 99, 101>>, <<112, 97, 105, 110, 116>>,
          <<115, 99, 117, 108, 112, 116>>} @@
    \* "mathematician": calc, count, logic, measure, number, think
    <<109, 97, 116, 104, 101, 109, 97, 116, 105, 99, 105, 97, 110>> :>
        {<<99, 97, 108, 99>>, <<99, 111, 117, 110, 116>>,
          <<108, 111, 103, 105, 99>>, <<109, 101, 97, 115, 117, 114, 101>>,
          <<110, 117, 109, 98, 101, 114>>, <<116, 104, 105, 110, 107>>} @@
    \* "baker": bake, bread, flour, grain, loaf, oven
    <<98, 97, 107, 101, 114>> :>
        {<<98, 97, 107, 101>>, <<98, 114, 101, 97, 100>>,
          <<102, 108, 111, 117, 114>>, <<103, 114, 97, 105, 110>>,
          <<108, 111, 97, 102>>, <<111, 118, 101, 110>>} @@
    \* "agriculture": earth, farm, field, grain, harvest, plough, vinci, vine
    <<97, 103, 114, 105, 99, 117, 108, 116, 117, 114, 101>> :>
        {<<101, 97, 114, 116, 104>>, <<102, 97, 114, 109>>,
          <<102, 105, 101, 108, 100>>, <<103, 114, 97, 105, 110>>,
          <<104, 97, 114, 118, 101, 115, 116>>,
          <<112, 108, 111, 117, 103, 104>>, <<118, 105, 110, 99, 105>>,
          <<118, 105, 110, 101>>}

\* str.lower()
lower(s) == [i \in 1..Len(s) |-> LowerChar(s[i])]

\* choose_target(f): (profession_canonical or np_prof_pred or "").strip()
choose_target(f) ==
    Strip(IF f.profession_canonical # <<>> THEN f.profession_canonical
          ELSE f.np_prof_pred)

\* "(unknown)"
UnknownTarget == <<40, 117, 110, 107, 110, 111, 119, 110, 41>>

\* the lookup without .lower()
KeywordsExact(target) ==
    IF target \in DOMAIN KEYWORDS THEN KEYWORDS[target] ELSE {}

\* KEYWORDS.get(target.lower(), set())
KeywordsOf(target) ==
    IF lower(target) \in DOMAIN KEYWORDS THEN KEYWORDS[lower(target)] ELSE {}

\* the hits counted against the keyword set instead of the roots
ScoreOverKeywords(roots, target) ==
    LET kw   == KeywordsOf(target)
        hits == {r \in roots : r \in kw}
    IN  IF roots = {} THEN [score |-> <<0, 1>>, hits |-> {}]
        ELSE [score |-> <<Cardinality(hits),
                          IF Cardinality(kw) < 1 THEN 1 ELSE Cardinality(kw)>>,
              hits  |-> hits]

\* score_alignment(roots, target): (score, hits)
score_alignment(roots, target) ==
    LET kw   == KeywordsOf(target)
        hits == {r \in roots : r \in kw}
    IN  IF roots = {} THEN [score |-> <<0, 1>>, hits |-> {}]
        ELSE [score |-> <<Cardinality(hits),
                          IF Cardinality(roots) < 1 THEN 1 ELSE Cardinality(roots)>>,
              hits  |-> hits]

\* tier with the first bound exclusive
TierStrictStrong(score) ==
    IF 100 * score[1] > 66 * score[2] THEN "Strong"
    ELSE IF 100 * score[1] >= 33 * score[2] THEN "Medium"
    ELSE IF score[1] > 0 THEN "Weak"
    ELSE "None"

\* tier(score); score >= 0.66 is 100 * hits >= 66 * roots
tier(score) ==
    IF 100 * score[1] >= 66 * score[2] THEN "Strong"
    ELSE IF 100 * score[1] >= 33 * score[2] THEN "Medium"
    ELSE IF score[1] > 0 THEN "Weak"
    ELSE "None"

\* the greatest common divisor
RECURSIVE Gcd(_, _)
Gcd(a, b) == IF b = 0 THEN a ELSE Gcd(b, a % b)

\* The scores p/d in lowest terms, d = 40 or 200, that lie half-way between
\* two hundredths and whose float (the double nearest to p/d) is greater
\* than p/d: round and "{:.2f}" round these up, the other p/d of these
\* denominators down.
TiesRoundedUp ==
    {
     <<1, 40>>, <<9, 40>>, <<11, 40>>, <<13, 40>>, <<21, 40>>,
     <<27, 40>>, <<31, 40>>, <<37, 40>>, <<1, 200>>, <<7, 200>>,
     <<11, 200>>, <<13, 200>>, <<17, 200>>, <<19, 200>>, <<23, 200>>,
     <<27, 200>>, <<33, 200>>, <<39, 200>>, <<51, 200>>, <<53, 200>>,
     <<63, 200>>, <<67, 200>>, <<77, 200>>, <<79, 200>>, <<81, 200>>,
     <<89, 200>>, <<91, 200>>, <<93, 200>>, <<101, 200>>, <<103, 200>>,
     <<107, 200>>, <<109, 200>>, <<111, 200>>, <<127, 200>>, <<129, 200>>,
     <<131, 200>>, <<133, 200>>, <<137, 200>>, <<151, 200>>, <<153, 200>>,
     <<157, 200>>, <<159, 200>>, <<161, 200>>, <<177, 200>>, <<179, 200>>,
     <<181, 200>>, <<183, 200>>, <<187, 200>>
    }

\* the score cut off after two decimals
Truncate2(score) == (100 * score[1]) \div score[2]

\* round(s, 2) and "{s:.2f}", in hundredths: the hundredth nearest to the
\* float s = hits / roots.  hits/roots lies half-way between two hundredths
\* only when in lowest terms its denominator is 8, 40 or 200.  With 8 the
\* float is exact and the tie is rounded half to even; with 40 and 200 the
\* float is not exact and lies on one side of the tie.
round2(score) ==
    LET q == (100 * score[1]) \div score[2]
        r == (100 * score[1]) % score[2]
        g == Gcd(score[1], score[2])
        lowest == <<score[1] \div g, score[2] \div g>>
    IN  IF 2 * r < score[2] THEN q
        ELSE IF 2 * r > score[2] THEN q + 1
        ELSE IF lowest[2] = 8 THEN (IF q % 2 = 0 THEN q ELSE q + 1)
        ELSE IF lowest \in TiesRoundedUp THEN q + 1 ELSE q

\* Most records of the table the aligner runs on
MaxAlignRecords == 2

\* "smith", "metal", "forge", "schmidt", "grain", "mill", "muller", "bo", "cy"
R_smith   == <<115, 109, 105, 116, 104>>
R_metal   == <<109, 101, 116, 97, 108>>
R_forge   == <<102, 111, 114, 103, 101>>
R_schmidt == <<115, 99, 104, 109, 105, 100, 116>>
R_grain   == <<103, 114, 97, 105, 110>>
R_mill    == <<109, 105, 108, 108>>
R_muller  == <<109, 117, 108, 108, 101, 114>>
R_bo      == <<98, 111>>
R_cy      == <<99, 121>>

\* the name_roots cell: missing, not a JSON list, or a JSON list of strings
AlignRootCells ==
    {[kind |-> "absent", list |-> <<>>], [kind |-> "invalid", list |-> <<>>]}
    \cup {[kind |-> "list", list |-> l] :
            l \in { <<>>, <<R_smith>>, <<R_bo>>, <<R_bo, R_smith>>,
                    <<R_smith, R_smith, R_bo>>, <<R_bo, R_cy, R_smith>>,
                    <<R_forge, R_metal, R_smith>>,
                    <<R_forge, R_metal, R_schmidt, R_smith>>,
                    <<R_grain, R_mill, R_muller>> }}

\* "Engineer", "engineer", "Baker", "Pilot"
T_Engineer == <<69, 110, 103, 105, 110, 101, 101, 114>>
T_engineer == <<101, 110, 103, 105, 110, 101, 101, 114>>
T_Baker    == <<66, 97, 107, 101, 114>>
T_Pilot    == <<80, 105, 108, 111, 116>>

\* the cells profession_canonical and np_prof_pred of a row
AlignTargets ==
    { <<<<>>, <<>>>>, <<T_Engineer, <<>>>>, <<T_engineer, <<>>>>,
      <<<<>>, T_Baker>>, <<T_Pilot, T_Baker>>, <<Blank, <<>>>> }

\* the name_meaning cell: empty, or the gloss the enricher wrote
AlignMeanings == {<<>>, <<[gloss |-> "Meaning: kept"]>>}

AlignRows ==
    { [name_roots |-> c, profession_canonical |-> t[1], np_prof_pred |-> t[2],
       name_meaning |-> m] :
        c \in AlignRootCells, t \in AlignTargets, m \in AlignMeanings }

InitAlign ==
    /\ al_rows \in SeqsUpTo(AlignRows, MaxAlignRecords)
    /\ al_pc = "loop"
    /\ al_idx = 1
    /\ al_patches = <<>>
    /\ al_updated = 0
    /\ ProgramsOff({"aligner"})

\* out, the patch of the record with fields f; id stands for its record id
PatchOf(f, id) ==
    LET roots  == Range(f.name_roots.list)
        chosen == choose_target(f)
        target == IF chosen = <<>> THEN UnknownTarget ELSE chosen
        sa     == score_alignment(roots, target)
        tier_txt  == tier(sa.score)
        rationale == [roots  |-> SortedList(roots),
                      hits   |-> SortedList(sa.hits),
                      target |-> target,
                      score  |-> round2(sa.score),
                      tier   |-> tier_txt]
        out == [id                |-> id,
                name_meaning      |-> Append(f.name_meaning, rationale),
                etymology_explain |-> rationale,
                etymology_score   |-> round2(sa.score),
                etymology_match   |-> tier_txt,
                \* not written: what score_alignment returned
                s                 |-> sa.score,
                target            |-> target]
    IN  out

\* one iteration of "for rec in rows" of main
AlignNext ==
    /\ al_pc = "loop"
    /\ al_idx <= Len(al_rows)
    /\ al_idx' = al_idx + 1
    /\ LET f   == al_rows[al_idx]
           out == PatchOf(f, al_idx)
       IN  IF f.name_roots.kind # "list"
           THEN UNCHANGED <<al_patches, al_updated>>
           ELSE /\ al_patches' = Append(al_patches, out)
                /\ \E status \in PatchStatuses :
                       al_updated' = IF status < 400 THEN al_updated + 1
                                     ELSE al_updated
    /\ UNCHANGED <<al_rows, al_pc, others_align>>

\* the loop is over: the summary line
AlignFinish ==
    /\ al_pc = "loop"
    /\ al_idx > Len(al_rows)
    /\ al_pc' = "done"
    /\ UNCHANGED <<al_rows, al_idx, al_patches, al_updated,
                   others_align>>

NextAlign == AlignNext \/ AlignFinish

SpecAlign == InitAlign /\ [][NextAlign]_vars

(***************************************************************************)
(* tier on its own, on every score <<hits, roots>> of up to MaxRoots roots *)
(***************************************************************************)

\* Most roots of a record
MaxRoots == 100

InitTier ==
    /\ tier_in \in {<<h, n>> : h \in 0..MaxRoots, n \in 1..MaxRoots}
    /\ tier_in[1] <= tier_in[2]
    /\ tier_out = "input"
    /\ ProgramsOff({"tier"})

ApplyTier ==
    /\ tier_out = "input"
    /\ tier_out' = tier(tier_in)
    /\ UNCHANGED <<tier_in, others_tier>>

NextTier == ApplyTier

SpecTier == InitTier /\ [][NextTier]_vars

(***************************************************************************)
(* fetch_wikidata_people.py: http_get, one call                            *)
(* What one requests.get did is a record: the status of the response it    *)
(* returned, or the name of the exception it raised (status 0).            *)
(***************************************************************************)

\* HTTP / retry tuning; BASE_SLEEP and MAX_SLEEP in seconds
MAX_RETRIES == 5
BASE_SLEEP == 1
MAX_SLEEP == 12

Response(code) == [status |-> code, exc |-> ""]
Raised(name) == [status |-> 0, exc |-> name]

\* the statuses http_get turns into an HTTPError of its own
RetryStatuses == {429, 502, 503, 504}

\* the exceptions the except clause names; the HTTPError is the one raised
\* in the try block for a status of RetryStatuses
CaughtExceptions == {"ReadTimeout", "ConnectTimeout", "ConnectionError"}

\* what requests.get can do: a response of some status, or an exception,
\* among them one the except clause does not name
GetOutcomes ==
    {Response(code) : code \in {200, 404, 500} \cup RetryStatuses}
        \cup {Raised(name) : name \in CaughtExceptions \cup {"TooManyRedirects"}}

RetryAllErrors(o) == o.exc # "" \/ o.status = 429 \/ o.status >= 500

\* the outcomes that reach the except clause
Retryable(o) == o.status \in RetryStatuses \/ o.exc \in CaughtExceptions

Min(a, b) == IF a <= b THEN a ELSE b

\* what http_get hands back: nothing yet, None, a response, or an exception
Pending == [kind |-> "pending", status |-> 0]
None == [kind |-> "None", status |-> 0]
Returned(o) == [kind |-> "response", status |-> o.status]
Propagated == [kind |-> "exception", status |-> 0]

InitHttpGet ==
    /\ hg_pc = "loop"
    /\ hg_attempt = 1
    /\ hg_sleep = BASE_SLEEP
    /\ hg_log = <<>>
    /\ hg_result = Pending
    /\ ProgramsOff({"http_get"})

\* one pass of the for loop: the request, and what follows from its outcome
HttpGetAttempt(o) ==
    /\ hg_pc = "loop"
    /\ hg_attempt <= MAX_RETRIES
    /\ IF Retryable(o)
       THEN IF hg_attempt = MAX_RETRIES
            THEN /\ hg_pc' = "returned"
                 /\ hg_result' = None
                 /\ hg_log' = Append(hg_log, [outcome |-> o, slept |-> 0])
                 /\ UNCHANGED <<hg_attempt, hg_sleep>>
            ELSE /\ hg_log' = Append(hg_log,
                        [outcome |-> o, slept |-> Min(MAX_SLEEP, hg_sleep)])
                 /\ hg_sleep' = hg_sleep * 2
                 /\ hg_attempt' = hg_attempt + 1
                 /\ UNCHANGED <<hg_pc, hg_result>>
       ELSE /\ hg_log' = Append(hg_log, [outcome |-> o, slept |-> 0])
            /\ IF o.exc = ""
               THEN hg_pc' = "returned" /\ hg_result' = Returned(o)
               ELSE hg_pc' = "raised" /\ hg_result' = Propagated
            /\ UNCHANGED <<hg_attempt, hg_sleep>>
    /\ UNCHANGED others_http_get

NextHttpGet == \E o \in GetOutcomes : HttpGetAttempt(o)

\* a request ends (timeout=(CONNECT_TO, READ_TO)) and so does a sleep:
\* a call that can take a step takes it
SpecHttpGet == InitHttpGet /\ [][NextHttpGet]_vars /\ WF_vars(NextHttpGet)

(***************************************************************************)
(* fetch_wikidata_people.py: main, one run over a list of labels           *)
(* A call of http_get is one step here; what it gave is one of             *)
(*   "None"       no response after MAX_RETRIES attempts                   *)
(*   "error"      a response whose status is not 200                       *)
(*   "empty"      a 200 response without bindings                          *)
(*   "found"      a 200 response with bindings                             *)
(*   "exception"  an exception that leaves http_get                        *)
(***************************************************************************)

\* Most profession labels of a run
MaxLabels == 3

DEFAULT_LIMIT_PER_PROF == 40

CallResults == {"None", "error", "empty", "found", "exception"}

Max(a, b) == IF a >= b THEN a ELSE b

ResolveWithoutNoneCheck(lab, r1, r2) ==
    IF r1 \in {"exception", "None"} THEN [qid |-> 0, raised |-> TRUE]
    ELSE IF r1 = "found" THEN [qid |-> lab, raised |-> FALSE]
    ELSE IF r2 \in {"exception", "None"} THEN [qid |-> 0, raised |-> TRUE]
    ELSE IF r2 = "found" THEN [qid |-> lab, raised |-> FALSE]
    ELSE [qid |-> 0, raised |-> FALSE]

\* resolve_label_to_qid on the results of its exact and its contains query;
\* the second query is sent only when the first gave no binding.  A qid is
\* the label's own number, 0 stands for None.
resolve_label_to_qid(lab, r1, r2) ==
    IF r1 = "exception" THEN [qid |-> 0, raised |-> TRUE]
    ELSE IF r1 = "found" THEN [qid |-> lab, raised |-> FALSE]
    ELSE IF r2 = "exception" THEN [qid |-> 0, raised |-> TRUE]
    ELSE IF r2 = "found" THEN [qid |-> lab, raised |-> FALSE]
    ELSE [qid |-> 0, raised |-> FALSE]

\* a call that brought no 200 response: http_get gave up after its retries,
\* or returned a response of another status
Failed(r) == r \in {"None", "error"}

InitHarvest ==
    /\ hv_labels \in 1..MaxLabels
    /\ hv_pc = "resolve"
    /\ hv_idx = 1
    /\ hv_map = <<>>
    /\ hv_attempt = 1
    /\ hv_limit = Max(5, DEFAULT_LIMIT_PER_PROF)
    /\ hv_log = <<>>
    /\ hv_rows = <<>>

\* resolve_profession_list: one pass of its loop
HarvestResolve(r1, r2) ==
    /\ hv_pc = "resolve"
    /\ hv_idx <= hv_labels
    /\ LET res == resolve_label_to_qid(hv_idx, r1, r2)
       IN  /\ hv_log' = Append(hv_log,
                  [phase |-> "resolve", unit |-> hv_idx,
                   exhausted |-> Failed(r1) /\ Failed(r2),
                   got |-> IF res.qid = 0 THEN <<>> ELSE <<res.qid>>,
                   raised |-> res.raised])
           /\ IF res.raised
              THEN hv_pc' = "crashed" /\ UNCHANGED <<hv_idx, hv_map>>
              ELSE /\ hv_idx' = hv_idx + 1
                   /\ hv_map' = IF res.qid = 0 THEN hv_map
                                ELSE Append(hv_map, hv_idx)
                   /\ UNCHANGED hv_pc
    /\ UNCHANGED <<hv_labels, hv_attempt, hv_limit, hv_rows>>
    /\ UNCHANGED others_harvester

\* main, after resolve_profession_list: nothing resolved ends the run
HarvestResolved ==
    /\ hv_pc = "resolve"
    /\ hv_idx > hv_labels
    /\ hv_pc' = IF hv_map = <<>> THEN "done" ELSE "fetch"
    /\ hv_idx' = 1
    /\ UNCHANGED <<hv_labels, hv_map, hv_attempt, hv_limit, hv_log, hv_rows>>
    /\ UNCHANGED others_harvester

\* fetch_people_for_qid: one pass of its loop; the last pass, or a 200
\* response, ends the call, and main moves on to the next label
HarvestFetchAttempt(r) ==
    /\ hv_pc = "fetch"
    /\ hv_idx <= Len(hv_map)
    /\ hv_attempt <= MAX_RETRIES
    /\ LET entry(rows, exhausted, raised) ==
               [phase |-> "fetch", unit |-> hv_map[hv_idx],
                exhausted |-> exhausted, got |-> rows, raised |-> raised]
           next_label ==
               /\ hv_idx' = hv_idx + 1
               /\ hv_attempt' = 1
               /\ hv_limit' = Max(5, DEFAULT_LIMIT_PER_PROF)
       IN  IF r = "exception"
           THEN /\ hv_pc' = "crashed"
                /\ hv_log' = Append(hv_log, entry(<<>>, FALSE, TRUE))
                /\ UNCHANGED <<hv_idx, hv_attempt, hv_limit, hv_rows>>
           ELSE IF ~Failed(r)
           THEN /\ LET rows == IF r = "found" THEN <<hv_map[hv_idx]>> ELSE <<>>
                   IN  /\ hv_log' = Append(hv_log, entry(rows, FALSE, FALSE))
                       /\ hv_rows' = hv_rows \o rows
                /\ next_label
                /\ UNCHANGED hv_pc
           ELSE IF hv_attempt = MAX_RETRIES
           THEN /\ hv_log' = Append(hv_log, entry(<<>>, TRUE, FALSE))
                /\ next_label
                /\ UNCHANGED <<hv_pc, hv_rows>>
           ELSE /\ hv_limit' = Max(5, hv_limit \div 2)
                /\ hv_attempt' = hv_attempt + 1
                /\ UNCHANGED <<hv_pc, hv_idx, hv_log, hv_rows>>
    /\ UNCHANGED <<hv_labels, hv_map>>
    /\ UNCHANGED others_harvester

\* main, after the loop over prof_map: the rows go to upsert
HarvestFinish ==
    /\ hv_pc = "fetch"
    /\ hv_idx > Len(hv_map)
    /\ hv_pc' = "done"
    /\ UNCHANGED <<hv_labels, hv_idx, hv_map, hv_attempt, hv_limit, hv_log,
                   hv_rows>>
    /\ UNCHANGED others_harvester

NextHarvest ==
    \/ \E r1, r2 \in CallResults : HarvestResolve(r1, r2)
    \/ HarvestResolved
    \/ \E r \in CallResults : HarvestFetchAttempt(r)
    \/ HarvestFinish

(***************************************************************************)
(* wikidata_nomen_agent.py: discover_open / discover_strict, one run       *)
(* An occupation of the list is what the dictionaries hold for it:         *)
(*   "no patterns"   no surname patterns for it                            *)
(*   "empty filter"  patterns that build an empty surname filter           *)
(*   "query"         a surname filter, so a query is sent                  *)
(* and one try of a query gives "exception", "no rows", "other rows" (rows *)
(* none of which names a synonym of the occupation) or "rows".             *)
(***************************************************************************)

\* Most occupations of the chosen clusters
MaxOccs == 2

TRIES == 4

OccKinds == {"no patterns", "empty filter", "query"}
TryResults == {"exception", "no rows", "other rows", "rows"}

\* the rows an iteration keeps of the data frame the query returned: open
\* mode keeps the rows whose occupation label holds a synonym
KeptRows(mode, occ, r) ==
    IF r = "rows" \/ (r = "other rows" /\ mode = "strict") THEN <<occ>>
    ELSE <<>>

InitAgent ==
    /\ ag_mode \in {"open", "strict"}
    /\ ag_occs \in SeqsUpTo(OccKinds, MaxOccs) \ {<<>>}
    /\ ag_pc = "loop"
    /\ ag_idx = 1
    /\ ag_try = 0
    /\ ag_log = <<>>
    /\ ag_frames = <<>>

\* an occupation without surname patterns or with an empty filter: continue
AgentSkip ==
    /\ ag_pc = "loop"
    /\ ag_idx <= Len(ag_occs)
    /\ ag_occs[ag_idx] # "query"
    /\ ag_log' = Append(ag_log,
           [unit |-> ag_idx, tries |-> 0, gave_up |-> FALSE, got |-> <<>>])
    /\ ag_idx' = ag_idx + 1
    /\ UNCHANGED <<ag_mode, ag_occs, ag_pc, ag_try, ag_frames>>
    /\ UNCHANGED others_agent

\* run_sparql_with_retries: one pass of its loop; a result, or the last
\* failure, ends the call and the iteration of discover_* that made it
AgentTry(r) ==
    /\ ag_pc = "loop"
    /\ ag_idx <= Len(ag_occs)
    /\ ag_occs[ag_idx] = "query"
    /\ ag_try < TRIES
    /\ IF r = "exception" /\ ag_try + 1 < TRIES
       THEN /\ ag_try' = ag_try + 1
            /\ UNCHANGED <<ag_idx, ag_log, ag_frames>>
       ELSE LET kept == KeptRows(ag_mode, ag_idx, r)
            IN  /\ ag_log' = Append(ag_log,
                       [unit |-> ag_idx, tries |-> ag_try + 1,
                        gave_up |-> (r = "exception"), got |-> kept])
                /\ ag_frames' = ag_frames \o kept
                /\ ag_idx' = ag_idx + 1
                /\ ag_try' = 0
    /\ UNCHANGED <<ag_mode, ag_occs, ag_pc>>
    /\ UNCHANGED others_agent

\* main, after discover_*: the frames are written, the process exits 0
AgentFinish ==
    /\ ag_pc = "loop"
    /\ ag_idx > Len(ag_occs)
    /\ ag_pc' = "done"
    /\ UNCHANGED <<ag_mode, ag_occs, ag_idx, ag_try, ag_log, ag_frames>>
    /\ UNCHANGED others_agent

NextAgent ==
    \/ AgentSkip
    \/ \E r \in TryResults : AgentTry(r)
    \/ AgentFinish

\* a run of the harvester and a run of the agent, two processes that share
\* nothing and take their steps in any order
InitUnits == InitHarvest /\ InitAgent /\ ProgramsOff({"harvester", "agent"})

NextUnits == NextHarvest \/ NextAgent

SpecUnits == InitUnits /\ [][NextUnits]_vars

(***************************************************************************)
(* The CSV uploaders: push_to_airtable.py, upload_csv_field_aware.py and   *)
(* upload_to_airtable.py, one run of one of them                           *)
(* A record is its position in the CSV; what a POST or PATCH did is a      *)
(* response of some status or an exception, as for http_get.               *)
(***************************************************************************)

\* Most records of a CSV
MaxRows == 21

\* records per request: BATCH of push_to_airtable.py, batch_size of
\* upload_to_airtable.py, the literal 10 of upload_csv_field_aware.py
BATCH == 10

\* stop_after_attempt(5) of post_records in upload_to_airtable.py
POST_ATTEMPTS == 5

Uploaders == {"push_to_airtable", "upload_csv_field_aware", "upload_to_airtable"}

\* what a write request can do: 2xx, 3xx, 4xx/5xx, or an exception
WriteOutcomes ==
    {Response(200), Response(302), Response(422), Raised("ConnectionError")}

NeverRejected(prog, o) == FALSE

\* the outcomes an uploader takes for a failed write: an exception, and a
\* status of 300 and more (push_to_airtable.py) or 400 and more (the others)
Rejected(prog, o) ==
    \/ o.exc # ""
    \/ o.status >= (IF prog = "push_to_airtable" THEN 300 ELSE 400)

BatchOfEleven(rows, i) == SubSeq(rows, i + 1, Min(i + BATCH + 1, Len(rows)))

\* rows[i:i+BATCH]
Batch(rows, i) == SubSeq(rows, i + 1, Min(i + BATCH, Len(rows)))

\* <<a, a+1, ..., b>>
RowIds(a, b) == [k \in 1..(b - a + 1) |-> a + k - 1]

InitUpload ==
    /\ up_prog \in Uploaders
    /\ \E nc \in 0..MaxRows, nu \in 0..MaxRows :
          /\ nc + nu <= MaxRows
          /\ up_prog # "push_to_airtable" => nu = 0
          /\ up_create = RowIds(1, nc)
          /\ up_update = RowIds(nc + 1, nc + nu)
    /\ up_pc = "create"
    /\ up_i = 0
    /\ up_attempt = 0
    /\ up_log = <<>>
    /\ up_written = <<>>
    /\ ProgramsOff({"uploader"})

\* one request for the batch at offset up_i of the list rows, and what the
\* loop around it does next; more == the request is sent again
SendBatch(kind, rows, o, more) ==
    LET batch == Batch(rows, up_i)
        entry == [kind |-> kind, batch |-> batch, attempts |-> up_attempt + 1,
                  last |-> o]
    IN  /\ up_log' = IF up_attempt = 0 THEN Append(up_log, entry)
                     ELSE [up_log EXCEPT ![Len(up_log)] = entry]
        /\ IF ~Rejected(up_prog, o)
           THEN /\ up_written' = up_written \o batch
                /\ up_i' = up_i + BATCH
                /\ up_attempt' = 0
                /\ UNCHANGED up_pc
           ELSE IF more
           THEN /\ up_attempt' = up_attempt + 1
                /\ UNCHANGED <<up_pc, up_i, up_written>>
           ELSE /\ up_pc' = "exit 1"
                /\ up_attempt' = up_attempt + 1
                /\ UNCHANGED <<up_i, up_written>>
        /\ UNCHANGED <<up_prog, up_create, up_update>>
        /\ UNCHANGED others_uploader

\* push_to_airtable.py, create_records: one pass of its loop
PushCreate(o) ==
    /\ up_prog = "push_to_airtable"
    /\ up_pc = "create"
    /\ up_i < Len(up_create)
    /\ SendBatch("create", up_create, o, FALSE)

\* push_to_airtable.py: create_records returns, update_records starts
PushCreated ==
    /\ up_prog = "push_to_airtable"
    /\ up_pc = "create"
    /\ up_i >= Len(up_create)
    /\ up_pc' = "update"
    /\ up_i' = 0
    /\ UNCHANGED <<up_prog, up_create, up_update, up_attempt, up_log, up_written>>
    /\ UNCHANGED others_uploader

\* push_to_airtable.py, update_records: one pass of its loop
PushUpdate(o) ==
    /\ up_prog = "push_to_airtable"
    /\ up_pc = "update"
    /\ up_i < Len(up_update)
    /\ SendBatch("update", up_update, o, FALSE)

\* upload_csv_field_aware.py, main: one pass of the upload loop
FieldAwarePost(o) ==
    /\ up_prog = "upload_csv_field_aware"
    /\ up_pc = "create"
    /\ up_i < Len(up_create)
    /\ SendBatch("create", up_create, o, FALSE)

\* upload_to_airtable.py, main: one attempt of post_records for the batch of
\* the current pass; the retry decorator calls it again after a failure
\* until POST_ATTEMPTS attempts are made
UploadPost(o) ==
    /\ up_prog = "upload_to_airtable"
    /\ up_pc = "create"
    /\ up_i < Len(up_create)
    /\ SendBatch("create", up_create, o, up_attempt + 1 < POST_ATTEMPTS)

\* the last loop of the uploader is over: exit 0
UploadFinish ==
    /\ up_pc = (IF up_prog = "push_to_airtable" THEN "update" ELSE "create")
    /\ up_i >= Len(IF up_prog = "push_to_airtable" THEN up_update ELSE up_create)
    /\ up_pc' = "done"
    /\ UNCHANGED <<up_prog, up_create, up_update, up_i, up_attempt, up_log,
                   up_written>>
    /\ UNCHANGED others_uploader

NextUpload ==
    \/ \E o \in WriteOutcomes : PushCreate(o)
    \/ PushCreated
    \/ \E o \in WriteOutcomes : PushUpdate(o)
    \/ \E o \in WriteOutcomes : FieldAwarePost(o)
    \/ \E o \in WriteOutcomes : UploadPost(o)
    \/ UploadFinish

SpecUpload == InitUpload /\ [][NextUpload]_vars

(***************************************************************************)
(* The record-fetch loops: fetch_all_records of analyze_name_profession.py *)
(* and fetch_all of enrich_etymology.py, one call                          *)
(* A table is its number of pages of page_size records (the last one may   *)
(* be short, an empty table is one empty page).  The store answers a       *)
(* request without offset with page 1 and a request with the offset token  *)
(* of page p with page p + 1; every page but the last carries a token.     *)
(* The token of page p is p, no token is 0; a page stands for its records. *)
(***************************************************************************)

\* the parameters of fetch_all_records
page_size == 100
max_pages == 1000

\* Most pages of a small table
MaxSmallTable == 4

\* Most pages by which a large table exceeds max_pages
MaxExcess == 2

Fetchers == {"fetch_all_records", "fetch_all"}

TableSizes == (1..MaxSmallTable) \cup ((max_pages - 1)..(max_pages + MaxExcess))

NoOffset == 0

\* the page the store returns for a request, and the token it carries
PageFor(offset) == offset + 1
TokenOf(page, table) == IF page < table THEN page ELSE NoOffset

BreaksWithoutOffsetOnly(prog, offset, pages) == offset = NoOffset

\* the test that ends the loop after a page: no offset token, or, in
\* fetch_all_records, max_pages pages fetched
LoopBreaks(prog, offset, pages) ==
    \/ offset = NoOffset
    \/ prog = "fetch_all_records" /\ pages >= max_pages

InitFetch ==
    /\ fa_prog \in Fetchers
    /\ fa_table \in TableSizes
    /\ fa_pc = "loop"
    /\ fa_offset = NoOffset
    /\ fa_pages = 0
    /\ fa_recs = <<>>
    /\ fa_req = [pageSize |-> 0, offset |-> NoOffset]
    /\ ProgramsOff({"fetcher"})

\* one pass of the while loop: the request, and the page or the error status
\* that answers it
FetchPage(ok) ==
    /\ fa_pc = "loop"
    /\ fa_req' = [pageSize |-> page_size, offset |-> fa_offset]
    /\ IF ~ok
       THEN /\ fa_pc' = "failed"
            /\ UNCHANGED <<fa_offset, fa_pages, fa_recs>>
       ELSE LET page == PageFor(fa_offset)
                token == TokenOf(page, fa_table)
            IN  /\ fa_recs' = Append(fa_recs, page)
                /\ fa_offset' = token
                /\ fa_pages' = fa_pages + 1
                /\ fa_pc' = IF LoopBreaks(fa_prog, token, fa_pages + 1)
                            THEN "returned" ELSE "loop"
    /\ UNCHANGED <<fa_prog, fa_table>>
    /\ UNCHANGED others_fetcher

NextFetch == \E ok \in BOOLEAN : FetchPage(ok)

SpecFetch == InitFetch /\ [][NextFetch]_vars

(***************************************************************************)
(* The start of each script that talks to the record store: where it reads *)
(* its AIRTABLE_* environment values, and the network requests it issues   *)
(* before and after.  The environment is the set of the values present     *)
(* ("token" is the token variable the script reads); a run is followed to  *)
(* its first record-store request.  The harvester's resolve and fetch      *)
(* loops are one step each here (they issue at least one request each for  *)
(* a non-empty label list); the harvester program above has them in full.  *)
(***************************************************************************)

StoreScripts == {"analyze_name_profession", "enrich_etymology",
                 "score_etymology_to_profession", "fetch_wikidata_people",
                 "push_to_airtable", "upload_to_airtable",
                 "upload_csv_field_aware"}

EnvValues == {"base", "token", "table"}

\* the environment values a script cannot run without
RequiredEnv(script) ==
    CASE script = "push_to_airtable" -> {"base", "token"}
      [] script = "upload_to_airtable" -> {"token"}
      [] OTHER -> EnvValues

\* where main starts: at the environment check, or, in the harvester, at
\* resolve_profession_list
FirstStep(script) ==
    IF script = "fetch_wikidata_people" THEN "resolve" ELSE "env"

InitStartup ==
    /\ st_script \in StoreScripts
    /\ st_env \in SUBSET EnvValues
    /\ st_pc = FirstStep(st_script)
    /\ st_requests = 0
    /\ ProgramsOff({"startup"})

\* the harvester's resolve_profession_list: Wikidata requests; main returns
\* when no label resolved
StartupResolve(resolved) ==
    /\ st_pc = "resolve"
    /\ st_requests' = st_requests + 1
    /\ st_pc' = IF resolved THEN "fetch" ELSE "returned"
    /\ UNCHANGED <<st_script, st_env>>
    /\ UNCHANGED others_startup

\* the harvester's fetch loop: Wikidata requests; main returns when no row
\* was fetched
StartupFetch(rows) ==
    /\ st_pc = "fetch"
    /\ st_requests' = st_requests + 1
    /\ st_pc' = IF rows THEN "env" ELSE "returned"
    /\ UNCHANGED <<st_script, st_env>>
    /\ UNCHANGED others_startup

\* env, _env, get_env and the tests at the top of the uploaders' main:
\* sys.exit with a message (an AssertionError in push_to_airtable.py) when a
\* required value is missing
StartupEnv ==
    /\ st_pc = "env"
    /\ st_pc' = IF RequiredEnv(st_script) \subseteq st_env
                THEN "request" ELSE "fatal"
    /\ UNCHANGED <<st_script, st_env, st_requests>>
    /\ UNCHANGED others_startup

\* the first request to the record store
StartupRequest ==
    /\ st_pc = "request"
    /\ st_requests' = st_requests + 1
    /\ st_pc' = "running"
    /\ UNCHANGED <<st_script, st_env>>
    /\ UNCHANGED others_startup

NextStartup ==
    \/ \E resolved \in BOOLEAN : StartupResolve(resolved)
    \/ \E rows \in BOOLEAN : StartupFetch(rows)
    \/ StartupEnv
    \/ StartupRequest

SpecStartup == InitStartup /\ [][NextStartup]_vars

(***************************************************************************)
(* Field resolution and the analyzer's write-back, analyze_name_profession *)
(* main: the fields of the table are resolved to roles by pick_one, and a  *)
(* record's patch is built from the resolved result fields.  A field name  *)
(* is a sequence of code points; the empty sequence stands for None (no    *)
(* field resolved).  A patch is a set of <<field, kind>> pairs, kind       *)
(* naming the value written ("pred", "score", "explain", "fallback").      *)
(* One record of the write-back loop is followed.                          *)
(***************************************************************************)

NoField == <<>>

\* a in b, for strings
IsSubstring(a, b) ==
    \E i \in 0..(Len(b) - Len(a)) : SubSeq(b, i + 1, i + Len(a)) = a

\* the least and the greatest element of a non-empty set of numbers
Least(S) == CHOOSE x \in S : \A y \in S : x <= y
Greatest(S) == CHOOSE x \in S : \A y \in S : x >= y

\* pick_one: the field whose lower-cased name equals the first alias that
\* has one (of several such fields the dict keeps the last), else the first
\* field that contains the first alias contained in any field, else None
pick_one(avail, aliases) ==
    LET Exact(j) == {i \in 1..Len(avail) : lower(avail[i]) = lower(aliases[j])}
        Within(j) == {i \in 1..Len(avail) :
                         IsSubstring(lower(aliases[j]), lower(avail[i]))}
        exact == {j \in 1..Len(aliases) : Exact(j) # {}}
        within == {j \in 1..Len(aliases) : Within(j) # {}}
    IN  IF exact # {} THEN avail[Greatest(Exact(Least(exact)))]
        ELSE IF within # {} THEN avail[Least(Within(Least(within)))]
        ELSE NoField

\* the aliases of the roles, main lines 201-209
\*   "full_name", "Full Name", "Name", "fullname", "Full name", "title"
FullNameAliases ==
    << <<102, 117, 108, 108, 95, 110, 97, 109, 101>>,
       <<70, 117, 108, 108, 32, 78, 97, 109, 101>>,
       <<78, 97, 109, 101>>,
       <<102, 117, 108, 108, 110, 97, 109, 101>>,
       <<70, 117, 108, 108, 32, 110, 97, 109, 101>>,
       <<116, 105, 116, 108, 101>> >>

\* given name
\*   "given_name", "first_name", "First Name", "Given Name"
GivenNameAliases ==
    << <<103, 105, 118, 101, 110, 95, 110, 97, 109, 101>>,
       <<102, 105, 114, 115, 116, 95, 110, 97, 109, 101>>,
       <<70, 105, 114, 115, 116, 32, 78, 97, 109, 101>>,
       <<71, 105, 118, 101, 110, 32, 78, 97, 109, 101>> >>

\* surname
\*   "surname", "last_name", "Last Name", "Family Name"
SurnameAliases ==
    << <<115, 117, 114, 110, 97, 109, 101>>,
       <<108, 97, 115, 116, 95, 110, 97, 109, 101>>,
       <<76, 97, 115, 116, 32, 78, 97, 109, 101>>,
       <<70, 97, 109, 105, 108, 121, 32, 78, 97, 109, 101>> >>

\* cluster label
\*   "profession_cluster", "professional_cluster", "Profession Cluster",
\*   "cluster", "Cluster"
ClusterAliases ==
    << <<112, 114, 111, 102, 101, 115, 115, 105, 111, 110, 95, 99, 108, 117, 115, 116, 101, 114>>,
       <<112, 114, 111, 102, 101, 115, 115, 105, 111, 110, 97, 108, 95, 99, 108, 117, 115, 116, 101, 114>>,
       <<80, 114, 111, 102, 101, 115, 115, 105, 111, 110, 32, 67, 108, 117, 115, 116, 101, 114>>,
       <<99, 108, 117, 115, 116, 101, 114>>,
       <<67, 108, 117, 115, 116, 101, 114>> >>

\* occupation
\*   "occupation", "profession_canonical", "professional_canonical",
\*   "professional_canonoical", "job", "role", "Role"
OccupationAliases ==
    << <<111, 99, 99, 117, 112, 97, 116, 105, 111, 110>>,
       <<112, 114, 111, 102, 101, 115, 115, 105, 111, 110, 95, 99, 97, 110, 111, 110, 105, 99, 97, 108>>,
       <<112, 114, 111, 102, 101, 115, 115, 105, 111, 110, 97, 108, 95, 99, 97, 110, 111, 110, 105, 99, 97, 108>>,
       <<112, 114, 111, 102, 101, 115, 115, 105, 111, 110, 97, 108, 95, 99, 97, 110, 111, 110, 111, 105, 99, 97, 108>>,
       <<106, 111, 98>>,
       <<114, 111, 108, 101>>,
       <<82, 111, 108, 101>> >>

\* prediction
\*   "np_cluster_pred", "np_cluster", "np_pred"
PredAliases ==
    << <<110, 112, 95, 99, 108, 117, 115, 116, 101, 114, 95, 112, 114, 101, 100>>,
       <<110, 112, 95, 99, 108, 117, 115, 116, 101, 114>>,
       <<110, 112, 95, 112, 114, 101, 100>> >>

\* score
\*   "np_cluster_score", "np_score", "np_gap"
ScoreAliases ==
    << <<110, 112, 95, 99, 108, 117, 115, 116, 101, 114, 95, 115, 99, 111, 114, 101>>,
       <<110, 112, 95, 115, 99, 111, 114, 101>>,
       <<110, 112, 95, 103, 97, 112>> >>

\* explanation
\*   "np_token_explain", "np_explain", "notes_qc", "Notes", "Description"
ExplainAliases ==
    << <<110, 112, 95, 116, 111, 107, 101, 110, 95, 101, 120, 112, 108, 97, 105, 110>>,
       <<110, 112, 95, 101, 120, 112, 108, 97, 105, 110>>,
       <<110, 111, 116, 101, 115, 95, 113, 99>>,
       <<78, 111, 116, 101, 115>>,
       <<68, 101, 115, 99, 114, 105, 112, 116, 105, 111, 110>> >>

\* the fallback notes field, main line 250
\*   "notes_qc", "Description", "Notes"
FallbackAliases ==
    << <<110, 111, 116, 101, 115, 95, 113, 99>>,
       <<68, 101, 115, 99, 114, 105, 112, 116, 105, 111, 110>>,
       <<78, 111, 116, 101, 115>> >>

\* The field names tables are made of, in table order
\*   "Name", "Cluster", "Occupation", "Job Description", "np_cluster_pred",
\*   "np_cluster_score", "np_token_explain", "Notes"
SchemaFields ==
    << <<78, 97, 109, 101>>,
       <<67, 108, 117, 115, 116, 101, 114>>,
       <<79, 99, 99, 117, 112, 97, 116, 105, 111, 110>>,
       <<74, 111, 98, 32, 68, 101, 115, 99, 114, 105, 112, 116, 105, 111, 110>>,
       <<110, 112, 95, 99, 108, 117, 115, 116, 101, 114, 95, 112, 114, 101, 100>>,
       <<110, 112, 95, 99, 108, 117, 115, 116, 101, 114, 95, 115, 99, 111, 114, 101>>,
       <<110, 112, 95, 116, 111, 107, 101, 110, 95, 101, 120, 112, 108, 97, 105, 110>>,
       <<78, 111, 116, 101, 115>> >>

\* the tables: every selection of SchemaFields, kept in that order
RECURSIVE Selection(_, _)
Selection(S, i) ==
    IF i > Len(SchemaFields) THEN <<>>
    ELSE IF i \in S THEN <<SchemaFields[i]>> \o Selection(S, i + 1)
    ELSE Selection(S, i + 1)

Schemas == {Selection(S, 1) : S \in SUBSET (1..Len(SchemaFields))}

\* main lines 201-209
ResolveFields(avail) ==
    [full_name_f  |-> pick_one(avail, FullNameAliases),
     given_name_f |-> pick_one(avail, GivenNameAliases),
     surname_f    |-> pick_one(avail, SurnameAliases),
     cluster_f    |-> pick_one(avail, ClusterAliases),
     occupation_f |-> pick_one(avail, OccupationAliases),
     np_pred_f    |-> pick_one(avail, PredAliases),
     np_score_f   |-> pick_one(avail, ScoreAliases),
     np_explain_f |-> pick_one(avail, ExplainAliases)]

Unresolved ==
    [full_name_f |-> NoField, given_name_f |-> NoField, surname_f |-> NoField,
     cluster_f |-> NoField, occupation_f |-> NoField, np_pred_f |-> NoField,
     np_score_f |-> NoField, np_explain_f |-> NoField]

\* out_fields[k] = v
Put(d, k, v) == {p \in d : p[1] # k} \cup {<<k, v>>}

\* out_fields of one record, main lines 245-252
out_fields(avail, m) ==
    LET d1 == IF m.np_pred_f # NoField THEN Put({}, m.np_pred_f, "pred") ELSE {}
        d2 == IF m.np_score_f # NoField THEN Put(d1, m.np_score_f, "score")
              ELSE d1
        d3 == IF m.np_explain_f # NoField
              THEN Put(d2, m.np_explain_f, "explain") ELSE d2
        fallback == pick_one(avail, FallbackAliases)
    IN  IF m.np_pred_f # NoField /\ m.np_score_f # NoField
           /\ m.np_explain_f # NoField
        THEN d3
        ELSE IF fallback # NoField THEN Put(d3, fallback, "fallback") ELSE d3

InitSchema ==
    /\ sc_avail \in Schemas
    /\ sc_pc = "resolve"
    /\ sc_map = Unresolved
    /\ sc_patch = {}
    /\ ProgramsOff({"schema"})

\* discover_fields, the pick_one calls of main and learn_pmi: the run ends
\* ("Not enough data") unless the table has records with a name and a
\* cluster label under the resolved fields
SchemaResolve(labelled) ==
    /\ sc_pc = "resolve"
    /\ LET m == ResolveFields(sc_avail)
           named_f == m.full_name_f # NoField \/ m.given_name_f # NoField
                      \/ m.surname_f # NoField
       IN  /\ sc_map' = m
           /\ sc_pc' = IF labelled /\ named_f /\ m.cluster_f # NoField
                       THEN "loop" ELSE "exit"
    /\ UNCHANGED <<sc_avail, sc_patch>>
    /\ UNCHANGED others_schema

\* one pass of the write-back loop, for a record with or without name
\* tokens: the record is skipped without tokens or with empty out_fields,
\* else patched with out_fields
SchemaPatch(named) ==
    /\ sc_pc = "loop"
    /\ LET named_f == sc_map.full_name_f # NoField
                      \/ sc_map.given_name_f # NoField
                      \/ sc_map.surname_f # NoField
           out == out_fields(sc_avail, sc_map)
       IN  sc_patch' = IF named /\ named_f THEN out ELSE {}
    /\ sc_pc' = "done"
    /\ UNCHANGED <<sc_avail, sc_map>>
    /\ UNCHANGED others_schema

NextSchema ==
    \/ \E labelled \in BOOLEAN : SchemaResolve(labelled)
    \/ \E named \in BOOLEAN : SchemaPatch(named)

SpecSchema == InitSchema /\ [][NextSchema]_vars

(***************************************************************************)
(* The field-aware CSV uploader, upload_csv_field_aware.py main: the       *)
(* fields of the table are resolved to roles, each CSV row becomes a       *)
(* record and the records are posted.  Field names and values are          *)
(* sequences of code points; a record's fields are a set of                *)
(* <<field, value>> pairs with one pair per field.  The batches and their  *)
(* failures are those of the uploader program above; here the rows fit one *)
(* batch.                                                                  *)
(***************************************************************************)

\* the aliases of the roles, main lines 98-101
\*   "full_name", "Full Name", "Name", "fullname", "Full name", "title"
UpFullNameAliases ==
    << <<102, 117, 108, 108, 95, 110, 97, 109, 101>>,
       <<70, 117, 108, 108, 32, 78, 97, 109, 101>>,
       <<78, 97, 109, 101>>,
       <<102, 117, 108, 108, 110, 97, 109, 101>>,
       <<70, 117, 108, 108, 32, 110, 97, 109, 101>>,
       <<116, 105, 116, 108, 101>> >>

\* cluster
\*   "profession_cluster", "professional_cluster", "Profession Cluster",
\*   "cluster", "Cluster", "category", "Category"
UpClusterAliases ==
    << <<112, 114, 111, 102, 101, 115, 115, 105, 111, 110, 95, 99, 108, 117, 115, 116, 101, 114>>,
       <<112, 114, 111, 102, 101, 115, 115, 105, 111, 110, 97, 108, 95, 99, 108, 117, 115, 116, 101, 114>>,
       <<80, 114, 111, 102, 101, 115, 115, 105, 111, 110, 32, 67, 108, 117, 115, 116, 101, 114>>,
       <<99, 108, 117, 115, 116, 101, 114>>,
       <<67, 108, 117, 115, 116, 101, 114>>,
       <<99, 97, 116, 101, 103, 111, 114, 121>>,
       <<67, 97, 116, 101, 103, 111, 114, 121>> >>

\* occupation
\*   "occupation", "profession_canonical", "professional_canonical",
\*   "professional_canonoical", "job", "role", "Role"
UpOccupationAliases ==
    << <<111, 99, 99, 117, 112, 97, 116, 105, 111, 110>>,
       <<112, 114, 111, 102, 101, 115, 115, 105, 111, 110, 95, 99, 97, 110, 111, 110, 105, 99, 97, 108>>,
       <<112, 114, 111, 102, 101, 115, 115, 105, 111, 110, 97, 108, 95, 99, 97, 110, 111, 110, 105, 99, 97, 108>>,
       <<112, 114, 111, 102, 101, 115, 115, 105, 111, 110, 97, 108, 95, 99, 97, 110, 111, 110, 111, 105, 99, 97, 108>>,
       <<106, 111, 98>>,
       <<114, 111, 108, 101>>,
       <<82, 111, 108, 101>> >>

\* language targets
\*   "language", "Language", "language_origin", "language-origin", "Language
\*   Origin", "lang", "Lang"
LanguageAliases ==
    << <<108, 97, 110, 103, 117, 97, 103, 101>>,
       <<76, 97, 110, 103, 117, 97, 103, 101>>,
       <<108, 97, 110, 103, 117, 97, 103, 101, 95, 111, 114, 105, 103, 105, 110>>,
       <<108, 97, 110, 103, 117, 97, 103, 101, 45, 111, 114, 105, 103, 105, 110>>,
       <<76, 97, 110, 103, 117, 97, 103, 101, 32, 79, 114, 105, 103, 105, 110>>,
       <<108, 97, 110, 103>>,
       <<76, 97, 110, 103>> >>

\* The field names tables are made of, in table order
\*   "Name", "Cluster", "Occupation", "Language", "Language Category"
TableFields ==
    << <<78, 97, 109, 101>>,
       <<67, 108, 117, 115, 116, 101, 114>>,
       <<79, 99, 99, 117, 112, 97, 116, 105, 111, 110>>,
       <<76, 97, 110, 103, 117, 97, 103, 101>>,
       <<76, 97, 110, 103, 117, 97, 103, 101, 32, 67, 97, 116, 101, 103, 111, 114, 121>> >>

\* the options of a select field
\*   "Trades", "Arts"
ClusterChoices ==
    << <<84, 114, 97, 100, 101, 115>>,
       <<65, 114, 116, 115>> >>

\* The cluster, language and name values of CSV rows
\*   "", "trades", "Trades", "Science"
CsvClusters ==
    { <<>>,
       <<116, 114, 97, 100, 101, 115>>,
       <<84, 114, 97, 100, 101, 115>>,
       <<83, 99, 105, 101, 110, 99, 101>> }

\* lang
\*   "", "en"
CsvLangs ==
    { <<>>,
       <<101, 110>> }

\* full_name
\*   "", "Al"
CsvNames ==
    { <<>>,
       <<65, 108>> }

\* occupation
\*   "smith"
CsvOccupation ==
    << <<115, 109, 105, 116, 104>> >>

\* the name of a record without fields, main line 148
\*   "Record"
RecordName ==
    << <<82, 101, 99, 111, 114, 100>> >>

\* Most rows of a CSV file
MaxCsvRows == 1

RECURSIVE TableSelection(_, _)
TableSelection(S, i) ==
    IF i > Len(TableFields) THEN <<>>
    ELSE IF i \in S THEN <<TableFields[i]>> \o TableSelection(S, i + 1)
    ELSE TableSelection(S, i + 1)

Tables == {TableSelection(S, 1) : S \in SUBSET (1..Len(TableFields))}

\* what the schema says of a field: "select" with ClusterChoices, "empty
\* select" without choices, "text", or "unknown" when the schema API gave
\* no definitions
FieldKinds == {"select", "empty select", "text", "unknown"}

CsvRows ==
    [full_name : CsvNames, occupation : {CsvOccupation[1]},
     cluster : CsvClusters, lang : CsvLangs]

\* pick_all, as the set of its result: every field that equals or contains
\* an alias, lower-cased (a field that equals one contains it)
pick_all(avail, aliases) ==
    {avail[i] : i \in {k \in 1..Len(avail) :
        \E j \in 1..Len(aliases) :
            IsSubstring(lower(aliases[j]), lower(avail[k]))}}

\* normalize_select: the first option equal to the value up to case, None
\* when there is none (None is the empty sequence: no option is empty)
normalize_select(value, allowed) ==
    LET same == {i \in 1..Len(allowed) : lower(value) = lower(allowed[i])}
    IN  IF value = <<>> \/ allowed = <<>> \/ same = {} THEN NoField
        ELSE allowed[Least(same)]

\* main lines 98-116: the resolved fields, and allowed_cluster (known is
\* FALSE for None)
ResolveUpload(avail, kind) ==
    LET cluster_field == pick_one(avail, UpClusterAliases)
        select == cluster_field # NoField
                  /\ kind \in {"select", "empty select"}
    IN  [full_name_field  |-> pick_one(avail, UpFullNameAliases),
         cluster_field    |-> cluster_field,
         occupation_field |-> pick_one(avail, UpOccupationAliases),
         language_fields  |-> pick_all(avail, LanguageAliases),
         allowed_cluster  |->
             [known |-> select,
              options |-> IF select /\ kind = "select"
                          THEN ClusterChoices ELSE <<>>]]

UnresolvedUpload ==
    [full_name_field |-> NoField, cluster_field |-> NoField,
     occupation_field |-> NoField, language_fields |-> {},
     allowed_cluster |-> [known |-> FALSE, options |-> <<>>]]

\* fields[lf] = lang for every lf of a set of fields
PutAll(d, ks, v) == {p \in d : p[1] \notin ks} \cup {<<k, v>> : k \in ks}

\* the fields of the record of one CSV row, main lines 128-148
RowFields(m, row) ==
    LET fn == Strip(row.full_name)
        occ == Strip(row.occupation)
        clu == Strip(row.cluster)
        lang == Strip(row.lang)
        norm == normalize_select(clu, m.allowed_cluster.options)
        d1 == IF m.full_name_field # NoField /\ fn # <<>>
              THEN Put({}, m.full_name_field, fn) ELSE {}
        d2 == IF m.occupation_field # NoField /\ occ # <<>>
              THEN Put(d1, m.occupation_field, occ) ELSE d1
        d3 == IF m.cluster_field # NoField /\ clu # <<>>
                 /\ m.allowed_cluster.known /\ norm # NoField
              THEN Put(d2, m.cluster_field, norm) ELSE d2
        d4 == IF m.language_fields # {} /\ lang # <<>>
              THEN PutAll(d3, m.language_fields, lang) ELSE d3
    IN  IF d4 = {} /\ m.full_name_field # NoField
        THEN Put({}, m.full_name_field, IF fn # <<>> THEN fn ELSE RecordName[1])
        ELSE d4

InitFieldAware ==
    /\ fw_avail \in Tables
    /\ fw_kind \in FieldKinds
    /\ fw_rows \in UNION {[1..n -> CsvRows] : n \in 0..MaxCsvRows}
    /\ fw_pc = "resolve"
    /\ fw_map = UnresolvedUpload
    /\ fw_records = <<>>
    /\ fw_sent = <<>>
    /\ ProgramsOff({"field_aware"})

\* discover_schema and the mapping
FieldAwareResolve ==
    /\ fw_pc = "resolve"
    /\ fw_map' = ResolveUpload(fw_avail, fw_kind)
    /\ fw_pc' = "read"
    /\ UNCHANGED <<fw_avail, fw_kind, fw_rows, fw_records, fw_sent>>
    /\ UNCHANGED others_field_aware

\* one pass of the loop over the CSV rows
FieldAwareRow ==
    /\ fw_pc = "read"
    /\ Len(fw_records) < Len(fw_rows)
    /\ fw_records' = Append(fw_records,
                            RowFields(fw_map, fw_rows[Len(fw_records) + 1]))
    /\ UNCHANGED <<fw_avail, fw_kind, fw_rows, fw_pc, fw_map, fw_sent>>
    /\ UNCHANGED others_field_aware

\* the records are posted: the store takes them, or answers with an error
\* status and the run dies
FieldAwareSend(ok) ==
    /\ fw_pc = "read"
    /\ Len(fw_records) = Len(fw_rows)
    /\ fw_sent' = IF ok THEN fw_records ELSE <<>>
    /\ fw_pc' = IF ok THEN "done" ELSE "died"
    /\ UNCHANGED <<fw_avail, fw_kind, fw_rows, fw_map, fw_records>>
    /\ UNCHANGED others_field_aware

NextFieldAware ==
    \/ FieldAwareResolve
    \/ FieldAwareRow
    \/ \E ok \in BOOLEAN : FieldAwareSend(ok)

SpecFieldAware == InitFieldAware /\ [][NextFieldAware]_vars

(***************************************************************************)
(* The harvester's upsert, fetch_wikidata_people.py: for each harvested    *)
(* row whose key was not seen before, a lookup of the row in the table and *)
(* then a patch of the record found or a create.  A row is its full_name   *)
(* and profession_canonical (sequences of code points); the table is the   *)
(* set of the (full_name, profession_canonical) pairs of its records.  The *)
(* store's filterByFormula compares strings exactly.                       *)
(***************************************************************************)

\* The names and the profession of harvested rows
\*   "Al", "AL", "Bo"
HarvestedNames == {<<65, 108>>, <<65, 76>>, <<66, 111>>}
\*   "smith"
HarvestedProfession == <<115, 109, 105, 116, 104>>

\* Most rows handed to upsert
MaxUpsertRows == 3

HarvestedRows ==
    [full_name : HarvestedNames, profession_canonical : {HarvestedProfession}]

\* the fields of a record that find compares
KeyExact(r) == <<r.full_name, r.profession_canonical>>

KeyWithCase(r) == <<r.full_name, r.profession_canonical>>

\* key = (r["full_name"].lower(), r["profession_canonical"].lower())
UpsertKey(r) == <<lower(r.full_name), lower(r.profession_canonical)>>

\* the record a lookup that succeeds returns for a row
InTable(table, r) == <<r.full_name, r.profession_canonical>> \in table

\* find: the record, or None when the lookup failed (http_get gave None or
\* a status other than 200) as well as when no record matches
find(table, r, lookup_ok) ==
    IF lookup_ok /\ InTable(table, r) THEN "found" ELSE "absent"

InitUpsert ==
    /\ us_rows \in UNION {[1..n -> HarvestedRows] : n \in 0..MaxUpsertRows}
    /\ us_table \in SUBSET {KeyExact(r) : r \in HarvestedRows}
    /\ us_pc = "loop"
    /\ us_idx = 1
    /\ us_seen = {}
    /\ us_log = <<>>
    /\ ProgramsOff({"upsert"})

\* one pass of the loop over the rows: a row with a seen key is skipped;
\* else the lookup (it succeeds or fails), then the patch or the create (the
\* store takes it or answers with an error status)
UpsertRow(lookup_ok, write_ok) ==
    /\ us_pc = "loop"
    /\ us_idx <= Len(us_rows)
    /\ LET r == us_rows[us_idx]
           key == UpsertKey(r)
           existing == find(us_table, r, lookup_ok)
           write == IF existing = "found" THEN "patch" ELSE "create"
       IN  IF key \in us_seen
           THEN /\ lookup_ok /\ write_ok
                /\ UNCHANGED <<us_seen, us_log, us_table>>
           ELSE /\ us_seen' = us_seen \cup {key}
                /\ us_log' = Append(us_log,
                       [row |-> us_idx, lookup_ok |-> lookup_ok,
                        in_table |-> InTable(us_table, r),
                        write |-> write, ok |-> write_ok])
                /\ us_table' = IF write = "create" /\ write_ok
                               THEN us_table \cup {KeyExact(r)} ELSE us_table
    /\ us_idx' = us_idx + 1
    /\ UNCHANGED <<us_rows, us_pc>>
    /\ UNCHANGED others_upsert

\* the loop is over: the counts are printed
UpsertFinish ==
    /\ us_pc = "loop"
    /\ us_idx > Len(us_rows)
    /\ us_pc' = "done"
    /\ UNCHANGED <<us_rows, us_table, us_idx, us_seen, us_log>>
    /\ UNCHANGED others_upsert

NextUpsert ==
    \/ \E lookup_ok, write_ok \in BOOLEAN : UpsertRow(lookup_ok, write_ok)
    \/ UpsertFinish

SpecUpsert == InitUpsert /\ [][NextUpsert]_vars

(***************************************************************************)
(* The harvester's people query and row extractor, build_people_query and  *)
(* fetch_people_for_qid of fetch_wikidata_people.py, for one answered      *)
(* request.  The query is the variables it selects and the variables its   *)
(* WHERE pattern binds; the query service binds a selected variable        *)
(* ?xLabel to the label of ?x when the pattern binds ?x, and leaves a      *)
(* selected variable that nothing binds out of the result binding.  A      *)
(* person of the result is the label of its item and whether it has a      *)
(* given-name and a family-name statement; values are sequences of code    *)
(* points.                                                                 *)
(***************************************************************************)

\* SELECT ?person ?personLabel ?occLabel ?givenNameLabel ?familyNameLabel ?lang
Selected ==
    {"person", "personLabel", "occLabel", "givenNameLabel",
     "familyNameLabel", "lang"}

\* ?person wdt:P106/wdt:P279* wd:qid
PatternBinds == {"person"}

\* OPTIONAL { ?person wdt:P735 ?given }  OPTIONAL { ?person wdt:P734 ?family }
OptionalBinds(p) ==
    (IF p.given THEN {"given"} ELSE {}) \cup (IF p.family THEN {"family"} ELSE {})

LabelOf(x) == x \o "Label"

\* The labels of people and of the items their statements name
\*   "Al Bo", "Cy"
PersonLabels == {<<65, 108, 32, 66, 111>>, <<67, 121>>}
\*   "Al", "Bo"
ItemLabel(x) ==
    CASE x = "given" -> <<65, 108>>
      [] x = "family" -> <<66, 111>>
      [] OTHER -> <<>>

\* Most people in the answer to one request
MaxPeople == 2

People == [label : PersonLabels, given : BOOLEAN, family : BOOLEAN,
           lang : BOOLEAN]

\* the result binding of a person: the selected variables that the pattern
\* or the label service binds, with their values.  BIND(LANG(?personLabel)
\* AS ?lang) is evaluated before the label service has bound ?personLabel:
\* whether ?lang comes out bound is left open (p.lang).
Binding(p) ==
    LET bound == PatternBinds \cup OptionalBinds(p)
        labels == {LabelOf(x) : x \in bound} \cap Selected
        names == (bound \cap Selected) \cup labels
                \cup (IF p.lang THEN {"lang"} ELSE {})
    IN  [v \in names |->
            CASE v = "person" -> <<81, 49>>
              [] v = "personLabel" -> p.label
              \* "en"
              [] v = "lang" -> <<101, 110>>
              [] OTHER -> ItemLabel(CHOOSE x \in bound : LabelOf(x) = v)]

\* b.get(v, {}).get("value", "").strip()
ValueOf(b, v) == IF v \in DOMAIN b THEN Strip(b[v]) ELSE <<>>

\* the row of a binding, <<>> (no row) when the binding is dropped
RowOf(b) ==
    LET given == ValueOf(b, "givenNameLabel")
        fam == ValueOf(b, "familyNameLabel")
        occ == ValueOf(b, "occLabel")
        \* (... or "en")
        lang == IF ValueOf(b, "lang") = <<>> THEN <<101, 110>> ELSE ValueOf(b, "lang")
        full == IF ValueOf(b, "personLabel") # <<>>
                THEN ValueOf(b, "personLabel")
                ELSE Strip(given \o <<32>> \o fam)
    IN  IF full = <<>> \/ occ = <<>> THEN <<>>
        ELSE <<[full_name |-> full, given_name |-> given, surname |-> fam,
                profession_canonical |-> occ, language_origin |-> lang]>>

InitPeople ==
    /\ pq_people \in UNION {[1..n -> People] : n \in 1..MaxPeople}
    /\ pq_pc = "query"
    /\ pq_binds = <<>>
    /\ pq_idx = 1
    /\ pq_rows = <<>>
    /\ ProgramsOff({"people"})

\* the request: answered with the bindings of the people who hold the
\* occupation, or failed (the retries are those of the harvester above)
PeopleQuery(ok) ==
    /\ pq_pc = "query"
    /\ pq_binds' = IF ok THEN [i \in 1..Len(pq_people) |-> Binding(pq_people[i])]
                   ELSE <<>>
    /\ pq_pc' = IF ok THEN "extract" ELSE "failed"
    /\ UNCHANGED <<pq_people, pq_idx, pq_rows>>
    /\ UNCHANGED others_people

\* one pass of the loop over the bindings
PeopleExtract ==
    /\ pq_pc = "extract"
    /\ pq_idx <= Len(pq_binds)
    /\ pq_rows' = pq_rows \o RowOf(pq_binds[pq_idx])
    /\ pq_idx' = pq_idx + 1
    /\ UNCHANGED <<pq_people, pq_pc, pq_binds>>
    /\ UNCHANGED others_people

\* return rows
PeopleReturn ==
    /\ pq_pc = "extract"
    /\ pq_idx > Len(pq_binds)
    /\ pq_pc' = "returned"
    /\ UNCHANGED <<pq_people, pq_binds, pq_idx, pq_rows>>
    /\ UNCHANGED others_people

NextPeople ==
    \/ \E ok \in BOOLEAN : PeopleQuery(ok)
    \/ PeopleExtract
    \/ PeopleReturn

SpecPeople == InitPeople /\ [][NextPeople]_vars

(***************************************************************************)
(* The score and the tier the aligner writes to one record, on every score *)
(* <<hits, roots>> a name_roots cell of up to MaxCellRoots roots can get:  *)
(* the hits are roots that are keywords of the target, so there are no     *)
(* more of them than the largest keyword set has keywords.                 *)
(***************************************************************************)

\* Most roots of a name_roots cell
MaxCellRoots == 210

\* the size of the largest keyword set
MostHits == Greatest({Cardinality(KEYWORDS[t]) : t \in DOMAIN KEYWORDS})

NotWritten == [etymology_score |-> 0, etymology_match |-> "input"]

InitWritten ==
    /\ ws_in \in {<<h, n>> : h \in 0..MostHits, n \in 1..MaxCellRoots}
    /\ ws_in[1] <= ws_in[2]
    /\ ws_out = NotWritten
    /\ ProgramsOff({"written"})

\* tier_txt = tier(s); "etymology_score": round(s, 2), "etymology_match":
\* tier_txt
WriteScore ==
    /\ ws_out = NotWritten
    /\ ws_out' = [etymology_score |-> round2(ws_in),
                  etymology_match |-> tier(ws_in)]
    /\ UNCHANGED <<ws_in, others_written>>

NextWritten == WriteScore

SpecWritten == InitWritten /\ [][NextWritten]_vars

(***************************************************************************)
(* The aligner run twice on one table, score_etymology_to_profession.py    *)
(* main: a patch the store accepts changes the record, and the second run  *)
(* reads what the first one wrote.  A record of the table is the fields    *)
(* the aligner reads, and in etymology what it wrote (empty before).       *)
(***************************************************************************)

\* Most records of the table the aligner runs on twice
MaxRerunRecords == 1

RerunRows ==
    { [name_roots |-> f.name_roots,
       profession_canonical |-> f.profession_canonical,
       np_prof_pred |-> f.np_prof_pred,
       name_meaning |-> f.name_meaning,
       etymology |-> <<>>] : f \in AlignRows }

\* the record after the store accepted the patch out
Patched(f, out) ==
    [f EXCEPT !.name_meaning = out.name_meaning,
              !.etymology = <<[etymology_explain |-> out.etymology_explain,
                               etymology_score |-> out.etymology_score,
                               etymology_match |-> out.etymology_match]>>]

InitRerun ==
    /\ rr_table \in UNION {[1..n -> RerunRows] : n \in 1..MaxRerunRecords}
    /\ rr_run = 1
    /\ rr_idx = 1
    /\ rr_first = <<>>
    /\ rr_pc = "loop"
    /\ ProgramsOff({"rerun"})

\* one iteration of "for rec in rows" of main, in either run; the store
\* accepts the patch or answers with an error status
RerunNext(accepted) ==
    /\ rr_pc = "loop"
    /\ rr_idx <= Len(rr_table)
    /\ rr_idx' = rr_idx + 1
    /\ LET f == rr_table[rr_idx]
       IN  IF f.name_roots.kind # "list"
           THEN accepted /\ UNCHANGED rr_table
           ELSE rr_table' = IF accepted
                            THEN [rr_table EXCEPT
                                     ![rr_idx] = Patched(f, PatchOf(f, rr_idx))]
                            ELSE rr_table
    /\ UNCHANGED <<rr_run, rr_first, rr_pc, others_rerun>>

\* a run is over; the second run starts on the table the first one left
RerunFinish ==
    /\ rr_pc = "loop"
    /\ rr_idx > Len(rr_table)
    /\ IF rr_run = 1
       THEN /\ rr_first' = rr_table
            /\ rr_run' = 2
            /\ rr_idx' = 1
            /\ UNCHANGED rr_pc
       ELSE /\ rr_pc' = "done"
            /\ UNCHANGED <<rr_first, rr_run, rr_idx>>
    /\ UNCHANGED <<rr_table, others_rerun>>

NextRerun ==
    \/ \E accepted \in BOOLEAN : RerunNext(accepted)
    \/ RerunFinish

SpecRerun == InitRerun /\ [][NextRerun]_vars

(***************************************************************************)
(* push_to_airtable.py, the script's main part: the ids of the table are   *)
(* fetched, each CSV row goes to the records to update or to create, and   *)
(* both lists are written.  A CSV row is the id it carries, 0 for an empty *)
(* id; the table is the number of records it holds for each id.  The lists *)
(* fit one batch each; the batches are those of the uploader above.        *)
(***************************************************************************)

\* Most CSV rows of a run and most different ids
MaxPushRows == 3
MaxPushIds == 2

PushIds == 1..MaxPushIds
EmptyId == 0

\* rec_map, as the set of its keys: the ids the table holds, or, when a
\* request of the fetch loop failed ("Fetch error", break), the ids read up
\* to then: none here, the table being one page
fetch_existing_id_map(table, ok) ==
    IF ok THEN {i \in PushIds : table[i] > 0} ELSE {}

\* to_create and to_update of main, as lists of ids
RECURSIVE ToCreate(_, _)
ToCreate(rows, id_map) ==
    IF rows = <<>> THEN <<>>
    ELSE (IF Head(rows) # EmptyId /\ Head(rows) \notin id_map
          THEN <<Head(rows)>> ELSE <<>>) \o ToCreate(Tail(rows), id_map)

RECURSIVE ToUpdate(_, _)
ToUpdate(rows, id_map) ==
    IF rows = <<>> THEN <<>>
    ELSE (IF Head(rows) # EmptyId /\ Head(rows) \in id_map
          THEN <<Head(rows)>> ELSE <<>>) \o ToUpdate(Tail(rows), id_map)

\* how often an id occurs in a list
Occurrences(list, id) == Cardinality({k \in 1..Len(list) : list[k] = id})

InitPush ==
    /\ pu_rows \in UNION {[1..n -> PushIds \cup {EmptyId}] : n \in 0..MaxPushRows}
    /\ pu_table \in [PushIds -> {0, 1}]
    /\ pu_before = pu_table
    /\ pu_pc = "fetch"
    /\ pu_create = <<>>
    /\ pu_update = <<>>
    /\ ProgramsOff({"push"})

\* fetch_existing_id_map and the loop over the rows
PushPlan(ok) ==
    /\ pu_pc = "fetch"
    /\ LET id_map == fetch_existing_id_map(pu_table, ok)
       IN  /\ pu_create' = ToCreate(pu_rows, id_map)
           /\ pu_update' = ToUpdate(pu_rows, id_map)
    /\ pu_pc' = "create"
    /\ UNCHANGED <<pu_rows, pu_table, pu_before>>
    /\ UNCHANGED others_push

\* create_records: the store takes the records, or answers with an error
\* status and the run exits with 1
PushCreateAll(ok) ==
    /\ pu_pc = "create"
    /\ IF pu_create = <<>> THEN ok /\ pu_pc' = "update" /\ UNCHANGED pu_table
       ELSE IF ok
       THEN /\ pu_table' = [i \in PushIds |->
                               pu_table[i] + Occurrences(pu_create, i)]
            /\ pu_pc' = "update"
       ELSE pu_pc' = "exit 1" /\ UNCHANGED pu_table
    /\ UNCHANGED <<pu_rows, pu_before, pu_create, pu_update>>
    /\ UNCHANGED others_push

\* update_records: the records keep their ids
PushUpdateAll(ok) ==
    /\ pu_pc = "update"
    /\ pu_pc' = IF pu_update = <<>> \/ ok THEN "done" ELSE "exit 1"
    /\ pu_update = <<>> => ok
    /\ UNCHANGED <<pu_rows, pu_table, pu_before, pu_create, pu_update>>
    /\ UNCHANGED others_push

NextPush ==
    \/ \E ok \in BOOLEAN : PushPlan(ok)
    \/ \E ok \in BOOLEAN : PushCreateAll(ok)
    \/ \E ok \in BOOLEAN : PushUpdateAll(ok)

SpecPush == InitPush /\ [][NextPush]_vars

(***************************************************************************)
(* The orchestrator, orchestrate_nomen.py main: preflight, the discovery   *)
(* subprocess, and what follows it.  A run is given by what preflight      *)
(* finds, the exit code of discovery, the lines of the CSV file it left,   *)
(* the --skip-upload flag and the AIRTABLE_* variables present.            *)
(***************************************************************************)

PreflightFindings ==
    {"ok", "no template", "no dictionary", "placeholders missing",
     "cluster not found"}

UploadEnv == {"AIRTABLE_API_KEY", "AIRTABLE_BASE_ID", "AIRTABLE_TABLE_NAME"}

\* Most lines of the CSV file (the header is one)
MaxCsvLines == 2

\* Exit codes of the discovery subprocess
DiscoveryCodes == {0, 1}

OrchRuns ==
    [preflight : PreflightFindings, rc : DiscoveryCodes, n : 0..MaxCsvLines,
     skip_upload : BOOLEAN, env : SUBSET UploadEnv]

\* the sys.exit of preflight, "ok" when it passes
Preflight(finding) ==
    CASE finding = "no template" -> "exit 1"
      [] finding = "no dictionary" -> "exit 1"
      [] finding = "placeholders missing" -> "exit 2"
      [] finding = "cluster not found" -> "exit 3"
      [] OTHER -> "ok"

\* The lines after discovery returned 0.  With n > 1 the test
\* "if args.skip-upload:" is reached: it reads args.skip, which the parser
\* never set (the flag's attribute is skip_upload), so it raises
\* AttributeError for every value of the flag; the environment test and the
\* upload call below it are never reached.
AfterDiscovery(run) ==
    IF run.n <= 1 THEN "exit 0" ELSE "AttributeError"

InitOrch ==
    /\ or_run \in OrchRuns
    /\ or_pc = "preflight"
    /\ or_end = "running"
    /\ or_stages = <<>>
    /\ ProgramsOff({"orchestrator"})

\* == Preflight ==
OrchPreflight ==
    /\ or_pc = "preflight"
    /\ LET found == Preflight(or_run.preflight)
       IN  IF found = "ok" THEN or_pc' = "discovery" /\ UNCHANGED or_end
           ELSE or_pc' = "ended" /\ or_end' = found
    /\ UNCHANGED <<or_run, or_stages>>
    /\ UNCHANGED others_orchestrator

\* == Discovery == and the lines after it
OrchDiscovery ==
    /\ or_pc = "discovery"
    /\ or_stages' = Append(or_stages, "discovery")
    /\ or_pc' = "ended"
    /\ or_end' = IF or_run.rc # 0 THEN "exit 10" ELSE AfterDiscovery(or_run)
    /\ UNCHANGED or_run
    /\ UNCHANGED others_orchestrator

NextOrch == OrchPreflight \/ OrchDiscovery

SpecOrch == InitOrch /\ [][NextOrch]_vars

(***************************************************************************)
(* Properties of the analyzer                                              *)
(***************************************************************************)

\* What a record list holds, read off the records themselves: each record's
\* tokens, the records learn_pmi counts (a cluster label and a non-empty
\* token set), and the clusters and tokens of those records.
Observed(recs) ==
    LET tk  == [j \in DOMAIN recs |->
                  name_tokens(recs[j].full_name, recs[j].given_name, recs[j].surname)]
        lab == {j \in DOMAIN recs : recs[j].cluster # "" /\ tk[j] # {}}
    IN  [tokens   |-> tk,
         labeled  |-> lab,
         clusters |-> {recs[j].cluster : j \in lab},
         vocab    |-> UNION {tk[j] : j \in lab}]

\* how many labeled records of cluster c hold token t
CoOccur(recs, ob, c, t) ==
    Cardinality({j \in ob.labeled : recs[j].cluster = c /\ t \in ob.tokens[j]})

\* the labeled records of cluster c
ClusterSize(recs, ob, c) ==
    Cardinality({j \in ob.labeled : recs[j].cluster = c})

Learned == pc \in {"scoring", "exit", "done", "crashed"}

Scored == {i \in DOMAIN results : ~results[i].skipped}

Positive(q) == q[1] > 0 /\ q[2] > 0

\* C1: once at least one labeled, tokenizable record exists, learn_pmi
\* returns a PMI value for every (observed cluster, observed token) pair,
\* co-occurring or not; each is a number (the logarithm was defined), the
\* smoothed joint probability and the product of the smoothed marginals
\* being strictly positive.
C1_PmiFiniteOnVocabulary ==
    LET ob == Observed(records) IN
    (Learned /\ ob.labeled # {}) =>
        /\ pc # "crashed"
        /\ DOMAIN model.pmi = ob.clusters
        /\ \A c \in ob.clusters :
              /\ DOMAIN model.pmi[c] = ob.vocab
              /\ \A t \in ob.vocab :
                    /\ model.pmi[c][t] # MathError
                    /\ DOMAIN model.pmi[c][t] = Primes
                    /\ Positive(SmoothedJoint(model.counts, c, t))
                    /\ Positive(RatMul(model.p_cluster[c], model.p_token[t]))

\* C1 witness: a learned table with a pair that never co-occurs
C1_Witness ==
    LET ob == Observed(records) IN
    /\ pc = "scoring"
    /\ \E c \in ob.clusters : \E t \in ob.vocab :
          /\ CoOccur(records, ob, c, t) = 0
          /\ model.pmi[c][t] # MathError
          /\ Sign(model.pmi[c][t]) < 0

\* the sum of f over S
RECURSIVE VSum(_, _)
VSum(S, f) ==
    IF S = {} THEN Zero
    ELSE LET x == CHOOSE y \in S : TRUE IN VAdd(f[x], VSum(S \ {x}, f))

\* C2: every known cluster's score is the sum of pmi[cluster][token] over
\* the record's tokens that the table knows (the others add nothing), and
\* no cluster scores higher than the one returned as best.
C2_ScoreIsSumAndBestIsMax ==
    LET ob == Observed(records) IN
    \A i \in Scored :
        LET r == results[i] IN
        /\ DOMAIN r.scores = Range(model.clusters)
        /\ r.best_c \in Range(model.clusters)
        /\ \A c \in Range(model.clusters) :
              /\ r.scores[c] = VSum(r.tokens \cap ob.vocab, model.pmi[c])
              /\ Geq(r.scores[r.best_c], r.scores[c])

\* C2 witness: a record with a token the table knows and one it does not,
\* scored over several clusters, the best strictly above another
C2_Witness ==
    LET ob == Observed(records) IN
    \E i \in Scored :
        LET r == results[i] IN
        /\ Len(model.clusters) >= 2
        /\ r.tokens \cap ob.vocab # {}
        /\ r.tokens \ ob.vocab # {}
        /\ \E c \in Range(model.clusters) : Gt(r.scores[r.best_c], r.scores[c])

\* C3: with two or more clusters the gap is the best score minus the
\* greatest score among the other clusters; with one cluster that cluster
\* is returned and the gap is its summed score.
C3_GapIsBestMinusSecond ==
    LET ob == Observed(records) IN
    \A i \in Scored :
        LET r      == results[i]
            others == Range(model.clusters) \ {r.best_c}
        IN  IF others = {}
            THEN /\ model.clusters = <<r.best_c>>
                 /\ r.gap = VSum(r.tokens \cap ob.vocab, model.pmi[r.best_c])
            ELSE \E c2 \in others :
                    /\ \A c \in others : Geq(r.scores[c2], r.scores[c])
                    /\ r.gap = VSub(r.scores[r.best_c], r.scores[c2])

\* C3 witness: three clusters with three different scores
C3_Witness ==
    \E i \in Scored :
        LET r == results[i] IN
        /\ Len(r.ranked) = 3
        /\ Gt(r.scores[r.ranked[1]], r.scores[r.ranked[2]])
        /\ Gt(r.scores[r.ranked[2]], r.scores[r.ranked[3]])
        /\ r.gap = VSub(r.scores[r.ranked[1]], r.scores[r.ranked[2]])

\* a decision threshold of 1.0
Threshold == Log2(<<2, 1>>)

\* C4: a prediction is patched onto a record only when the record's score
\* gap is at least the configured threshold.
C4_PatchOnlyAtThreshold ==
    \A k \in DOMAIN patches : Geq(patches[k].gap, Threshold)

\* the orderings of a record list
Perms(recs) ==
    LET n == Len(recs)
        bij == {f \in [1..n -> 1..n] : \A a, b \in 1..n : f[a] = f[b] => a = b}
    IN  {[k \in 1..n |-> recs[f[k]]] : f \in bij}

\* C5: when two clusters tie for the best score, the cluster returned is
\* the same for every order of the learned records.
C5_TieBreakIgnoresRecordOrder ==
    \A i \in Scored :
        LET r == results[i] IN
        (\E c \in Range(model.clusters) \ {r.best_c} : r.scores[c] = r.scores[r.best_c])
        => \A other \in Perms(records) :
              LET m == learn_pmi(other)
              IN  score_record(r.tokens, m.pmi, m.clusters).best_c = r.best_c

\* C6: N, the cluster, token and joint counts and every PMI value are the
\* same for every ordering of the records.
C6_LearnIgnoresRecordOrder ==
    (pc \in {"scoring", "exit"} /\ idx = 1) =>
        \A other \in Perms(records) :
            LET m == learn_pmi(other) IN
            /\ m.N = model.N
            /\ m.counts.cluster_counts = model.counts.cluster_counts
            /\ m.counts.token_counts = model.counts.token_counts
            /\ m.counts.joint_counts = model.counts.joint_counts
            /\ m.pmi = model.pmi

\* C6 witness: two clusters learned from records whose first-seen cluster
\* order changes with the ordering
C6_Witness ==
    /\ pc = "scoring" /\ idx = 1
    /\ Len(model.clusters) >= 2
    /\ \E other \in Perms(records) : learn_pmi(other).clusters # model.clusters

\* C7: when no record has both a cluster label and a non-empty token set,
\* learn_pmi returns N = 0 and empty tables, and main exits before it
\* scores or patches anything.
C7_NoLabeledDataAborts ==
    (Learned /\ Observed(records).labeled = {}) =>
        /\ model.N = 0
        /\ DOMAIN model.pmi = {}
        /\ DOMAIN model.p_cluster = {}
        /\ DOMAIN model.p_token = {}
        /\ pc = "exit"
        /\ results = <<>>
        /\ patches = <<>>
        /\ updated = 0

\* C7 witness: a table holding a labeled row without tokens and a named row
\* without label
C7_Witness ==
    LET ob == Observed(records) IN
    /\ pc = "exit"
    /\ \E i \in DOMAIN records : records[i].cluster # "" /\ ob.tokens[i] = {}
    /\ \E i \in DOMAIN records : records[i].cluster = "" /\ ob.tokens[i] # {}

\* every token of toks that the labeled data holds co-occurs with c and
\* with no other cluster, and there is such a token
OnlyWith(recs, ob, toks, c) ==
    /\ toks \cap ob.vocab # {}
    /\ \A t \in toks \cap ob.vocab :
          \A d \in ob.clusters : (CoOccur(recs, ob, d, t) > 0) <=> (d = c)

\* C10 as stated: a record whose tokens co-occur with one cluster only
\* scores that cluster strictly above every other cluster.
C10_OnlyClusterRanksAbove ==
    LET ob == Observed(records) IN
    \A i \in Scored :
        LET r == results[i] IN
        \A c \in Range(model.clusters) :
            OnlyWith(records, ob, r.tokens, c) =>
                \A d \in Range(model.clusters) \ {c} : Gt(r.scores[c], r.scores[d])

\* the toy data set, in some order, with the unlabeled row "Fritz Schmidt"
IsToyTable ==
    /\ Len(records) = 4
    /\ Range(records) = ToyRows

\* C10 amended: a record whose tokens co-occur with one cluster only scores
\* that cluster strictly above every other cluster that holds at least half
\* as many labeled records; on the toy data set "Fritz Schmidt" scores
\* Trades strictly above Science.
C10_OnlyClusterRanksAboveIfBalanced ==
    LET ob == Observed(records) IN
    \A i \in Scored :
        LET r == results[i] IN
        /\ \A c \in Range(model.clusters) :
              OnlyWith(records, ob, r.tokens, c) =>
                 \A d \in Range(model.clusters) \ {c} :
                    ClusterSize(records, ob, c) <= 2 * ClusterSize(records, ob, d)
                        => Gt(r.scores[c], r.scores[d])
        /\ (IsToyTable /\ records[i].full_name = FritzSchmidt) =>
              /\ OnlyWith(records, ob, r.tokens, "Trades")
              /\ Gt(r.scores["Trades"], r.scores["Science"])
              /\ r.best_c = "Trades"

\* C10 witness: the toy data set learned and "Fritz Schmidt" scored
C10_Witness ==
    /\ IsToyTable
    /\ \E i \in Scored :
          /\ records[i].full_name = FritzSchmidt
          /\ results[i].best_c = "Trades"
          /\ Sign(results[i].gap) > 0

(***************************************************************************)
(* Properties of name_tokens                                               *)
(***************************************************************************)

\* the words of one name field, read off the text: <<i, j>> bounds a
\* maximal run of letters
LetterRuns(s) ==
    {ij \in (1..Len(s)) \X (1..Len(s)) :
        /\ ij[1] <= ij[2]
        /\ \A x \in ij[1]..ij[2] : IsLetter(s[x])
        /\ (ij[1] = 1 \/ ~IsLetter(s[ij[1] - 1]))
        /\ (ij[2] = Len(s) \/ ~IsLetter(s[ij[2] + 1]))}

LowerWord(s, ij) == [x \in 1..(ij[2] - ij[1] + 1) |-> LowerChar(s[ij[1] + x - 1])]

\* <<k, i, j>>: field k holds a word from i to j
WordPlaces(fields) ==
    UNION {{<<k, ij[1], ij[2]>> : ij \in LetterRuns(fields[k])} : k \in 1..3}

\* the first of the longest words, fields and text read left to right
LongestPlace(places) ==
    CHOOSE w \in places :
        \A v \in places :
            \/ v[3] - v[2] < w[3] - w[2]
            \/ /\ v[3] - v[2] = w[3] - w[2]
               /\ (w[1] < v[1] \/ (w[1] = v[1] /\ w[2] <= v[2]))

\* the words, and the first five 3-letter slices of the longest word
WordsAndFragments(fields) ==
    LET places == WordPlaces(fields)
        words  == {LowerWord(fields[w[1]], <<w[2], w[3]>>) : w \in places}
        lp     == LongestPlace(places)
        long   == LowerWord(fields[lp[1]], <<lp[2], lp[3]>>)
        frags  == IF places = {} THEN {}
                  ELSE {SubSeq(long, i, i + 2) :
                          i \in {x \in 1..5 : x + 2 <= Len(long)}}
    IN  {t \in words \cup frags : Len(t) >= 2}

\* C8: name_tokens returns exactly the lowercased letters-only words of the
\* name fields and the first (at most 5) 3-character slices of the longest
\* word (the first of them when several are longest), those of length >= 2.
C8_TokensAreWordsAndFragments ==
    tpc \in {"tokenized", "passed back"} => tout = WordsAndFragments(tin)

\* C8 witness: a word with a sixth slice that is not returned and a
\* capital lowered, beside a one-letter word that is dropped
C8_Witness ==
    /\ tpc = "tokenized"
    /\ \E w \in WordPlaces(tin) :
          LET word == LowerWord(tin[w[1]], <<w[2], w[3]>>)
          IN  /\ Len(word) >= 8
              /\ SubSeq(word, 6, 8) \notin tout
              /\ \E x \in 1..Len(word) : tin[w[1]][w[2] + x - 1] # word[x]
    /\ Cardinality(tout) >= 4

\* C9: tokenizing the tokens again, as plain strings in any order, returns
\* the same token set.
C9_TokenizeIsIdempotent ==
    tpc = "passed back" => tback = tout


(***************************************************************************)
(* Properties of the enricher and the aligner                              *)
(***************************************************************************)

\* C11: every call of derive with a non-empty full name, given name or
\* surname returns a non-empty root list.  main calls derive for exactly the
\* rows it patches, and name_roots of the patch is the list derive returned.
C11_DeriveRootsNonEmpty ==
    \A i \in DOMAIN en_patches :
        LET f == en_rows[en_patches[i].id]
        IN  (f.full_name # <<>> \/ f.given_name # <<>> \/ f.surname # <<>>)
                => en_patches[i].name_roots # <<>>

\* no name field of the row holds a letter: blank or all-punctuation text
NoNameText(f) ==
    \A s \in {f.full_name, f.given_name, f.surname} :
        \A i \in DOMAIN s : ~IsLetter(s[i])

\* C12: a record whose name fields are blank or yield no tokens is skipped
\* by the analyzer's scoring loop and by the enricher: neither raises, and
\* neither sends a patch request for that record.
C12_BlankRecordSkipped ==
    /\ pc # "crashed"
    /\ \A i \in DOMAIN patches : ~NoNameText(records[patches[i].id])
    /\ \A i \in DOMAIN en_patches : ~NoNameText(en_rows[en_patches[i].id])

\* the keyword set of a target: the entry of the table for its lower-case form
KeywordsFor(target) ==
    UNION {KEYWORDS[k] : k \in {x \in DOMAIN KEYWORDS : x = lower(target)}}

\* the roots the aligner read from the row of a patch
RootsOf(p) == Range(al_rows[p.id].name_roots.list)

\* C13: score_alignment returns |roots n keywords(target)| / |roots|, which
\* lies in [0,1], is 0 when the root set is empty or the target has no entry,
\* and is 1 when every root is a keyword of the target; roots {smith, metal,
\* forge} against Engineer give 1.0 and tier Strong.
C13_ScoreIsShareOfRootsHit ==
    \A i \in DOMAIN al_patches :
        LET p     == al_patches[i]
            roots == RootsOf(p)
            kw    == KeywordsFor(p.target)
        IN  /\ p.s[2] > 0 /\ 0 <= p.s[1] /\ p.s[1] <= p.s[2]
            /\ roots # {} =>
                 p.s[1] * Cardinality(roots) = Cardinality(roots \cap kw) * p.s[2]
            /\ (roots = {} \/ kw = {}) => p.s[1] = 0
            /\ (roots # {} /\ roots \subseteq kw) => p.s[1] = p.s[2]
            /\ (roots = {R_smith, R_metal, R_forge} /\ p.target = T_Engineer)
                 => p.s[1] = p.s[2] /\ p.etymology_match = "Strong"

C13_Witness ==
    \E i \in DOMAIN al_patches :
        /\ RootsOf(al_patches[i]) = {R_smith, R_metal, R_forge}
        /\ al_patches[i].target = T_Engineer
        /\ al_patches[i].s = <<3, 3>>
        /\ al_patches[i].etymology_match = "Strong"

\* C14, as stated: the target is looked up by case-sensitive exact match; a
\* target that is no key of the table as written, also one that differs from
\* a key in letter case only, scores 0 and gets tier None.
C14_TargetLookupIsCaseSensitive ==
    \A i \in DOMAIN al_patches :
        al_patches[i].target \notin DOMAIN KEYWORDS
            => al_patches[i].s[1] = 0 /\ al_patches[i].etymology_match = "None"

\* C14, amended: the target is looked up by its lower-case form; a target
\* that differs from a key in letter case only is scored against that key,
\* and a target whose lower-case form is no key scores 0 and gets tier None.
C14_TargetLookupIgnoresCase ==
    \A i \in DOMAIN al_patches :
        LET p     == al_patches[i]
            roots == RootsOf(p)
        IN  /\ lower(p.target) \notin DOMAIN KEYWORDS
                 => p.s[1] = 0 /\ p.etymology_match = "None"
            /\ (lower(p.target) \in DOMAIN KEYWORDS /\ roots # {})
                 => p.s = <<Cardinality(roots \cap KEYWORDS[lower(p.target)]),
                            Cardinality(roots)>>

C14_Witness ==
    \E i \in DOMAIN al_patches :
        /\ al_patches[i].target \notin DOMAIN KEYWORDS
        /\ lower(al_patches[i].target) \in DOMAIN KEYWORDS
        /\ al_patches[i].s[1] > 0

\* C15: tier maps a score of [0,1] to exactly one level: Strong iff
\* score >= 0.66, Medium iff 0.33 <= score < 0.66, Weak iff 0 < score < 0.33,
\* None iff score = 0.
C15_TierThresholds ==
    tier_out \notin {"off", "input"} =>
        LET h == tier_in[1]
            n == tier_in[2]
        IN  /\ tier_out \in {"Strong", "Medium", "Weak", "None"}
            /\ tier_out = "Strong" <=> 100 * h >= 66 * n
            /\ tier_out = "Medium" <=> (100 * h >= 33 * n /\ 100 * h < 66 * n)
            /\ tier_out = "Weak" <=> (h > 0 /\ 100 * h < 33 * n)
            /\ tier_out = "None" <=> h = 0

\* a score of exactly 0.66
C15_Witness == tier_in = <<33, 50>> /\ tier_out = "Strong"

(***************************************************************************)
(* Properties of the harvester and the discovery agent                     *)
(***************************************************************************)

RECURSIVE Pow2(_)
Pow2(n) == IF n = 0 THEN 1 ELSE 2 * Pow2(n - 1)

\* the call is over
HttpGetOver == hg_pc \in {"returned", "raised"}

\* the transient failures: a 429/502/503/504 status, a
\* timeout, a connection error
TransientFailure(o) ==
    \/ o.exc = "" /\ o.status \in {429, 502, 503, 504}
    \/ o.exc \in {"ReadTimeout", "ConnectTimeout"}
    \/ o.exc = "ConnectionError"

C16_AttemptsAndSleepsBounded ==
    /\ Len(hg_log) <= MAX_RETRIES
    \* every request but the last was a transient failure, followed by a
    \* sleep that doubles from BASE_SLEEP and is capped at MAX_SLEEP
    /\ \A i \in 1..(Len(hg_log) - 1) :
          /\ TransientFailure(hg_log[i].outcome)
          /\ hg_log[i].slept = Min(MAX_SLEEP, BASE_SLEEP * Pow2(i - 1))
    /\ \A i \in 1..Len(hg_log) : hg_log[i].slept <= MAX_SLEEP
    \* a response with any other status is returned at once
    /\ \A i \in 1..Len(hg_log) :
          LET o == hg_log[i].outcome
          IN  (o.exc = "" /\ ~TransientFailure(o))
                  => /\ i = Len(hg_log)
                     /\ hg_pc = "returned"
                     /\ hg_result = [kind |-> "response", status |-> o.status]
                     /\ hg_log[i].slept = 0
    \* a transient failure is followed by another attempt, until the last
    /\ \A i \in 1..Len(hg_log) :
          TransientFailure(hg_log[i].outcome)
              => IF i = MAX_RETRIES
                 THEN hg_pc = "returned" /\ hg_result.kind = "None"
                 ELSE i < Len(hg_log) \/ hg_pc = "loop"
    /\ hg_pc = "loop" => Len(hg_log) = hg_attempt - 1

HarvestExhausted(e) == e.exhausted

HarvestEntries(phase) == SelectSeq(hv_log, LAMBDA e : e.phase = phase)

HarvestContinues ==
    LET res == HarvestEntries("resolve")
        fet == HarvestEntries("fetch")
    IN  \* a unit whose retries all failed is left with an empty result
        /\ \A i \in 1..Len(hv_log) :
              HarvestExhausted(hv_log[i]) => hv_log[i].got = <<>>
        \* the labels are taken in order, none is left out
        /\ \A i \in 1..Len(res) : res[i].unit = i
        /\ \A i \in 1..Len(fet) : fet[i].unit = hv_map[i]
        /\ hv_pc \in {"fetch", "done"} => Len(res) = hv_labels
        /\ hv_pc = "done" => Len(fet) = Len(hv_map)
        /\ hv_map = SelectSeq([i \in 1..Len(res) |-> i],
                              LAMBDA i : res[i].got # <<>>)
        \* only an exception ends the run early, never an exhausted unit
        /\ hv_pc = "crashed" =>
              /\ hv_log # <<>>
              /\ hv_log[Len(hv_log)].raised
              /\ ~HarvestExhausted(hv_log[Len(hv_log)])
        /\ \A i \in 1..Len(hv_log) :
              hv_log[i].raised => i = Len(hv_log) /\ hv_pc = "crashed"

AgentContinues ==
    \* a query whose tries all failed leaves no rows
    /\ \A i \in 1..Len(ag_log) :
          /\ ag_log[i].gave_up => ag_log[i].got = <<>> /\ ag_log[i].tries = TRIES
          /\ ag_log[i].unit = i
    \* the occupations are taken in order, none is left out
    /\ ag_pc = "done" => Len(ag_log) = Len(ag_occs)
    /\ ag_pc \in {"off", "loop", "done"}

\* C17: a label of the harvester or an occupation of the agent whose retries
\* all fail is given up with an empty result, the labels and occupations
\* after it are still processed, and the run does not end on the failure.
C17_ExhaustedUnitIsSkipped ==
    /\ hv_pc # "off" => HarvestContinues
    /\ ag_pc # "off" => AgentContinues

\* harvester: label 1 does not resolve, label 2 resolves and its fetch gives
\* up, label 3 is then resolved and fetched; agent: the first query gives
\* up, the second brings rows
C17_Witness ==
    /\ hv_pc = "done"
    /\ hv_labels = 3
    /\ HarvestExhausted(hv_log[1])
    /\ hv_map = <<2, 3>>
    /\ \E i \in 1..Len(hv_log) :
          /\ hv_log[i].phase = "fetch" /\ hv_log[i].unit = 2
          /\ HarvestExhausted(hv_log[i])
    /\ hv_rows = <<3>>
    /\ ag_pc = "done"
    /\ Len(ag_log) = 2
    /\ ag_log[1].gave_up
    /\ ag_frames = <<2>>

(***************************************************************************)
(* Properties of the CSV uploaders                                         *)
(***************************************************************************)

RECURSIVE ConcatBatches(_, _)
\* the records of the first n batches sent, in order
ConcatBatches(log, n) ==
    IF n = 0 THEN <<>> ELSE ConcatBatches(log, n - 1) \o log[n].batch

\* a write request failed: an exception, or an error status
WriteFailed(o) == o.exc # "" \/ o.status >= 400

\* the batch of entry e was sent and a request for it failed
HadFailedRequest(e) == e.attempts > 1 \/ WriteFailed(e.last)

\* C18 as stated: the first batch one of whose requests fails is the last
\* batch sent, the run ends with exit 1, and the batches before it stay
\* written.
C18_FirstFailedRequestAborts ==
    up_pc # "off" =>
        \A k \in 1..Len(up_log) :
            HadFailedRequest(up_log[k])
                => /\ k = Len(up_log)
                   /\ up_pc = "exit 1"
                   /\ up_written = ConcatBatches(up_log, k - 1)

\* the attempts an uploader makes for one batch before it gives the batch up
AttemptsPerBatch(prog) == IF prog = "upload_to_airtable" THEN POST_ATTEMPTS ELSE 1

\* the batch of entry e failed for good
BatchFailed(e) == WriteFailed(e.last) /\ e.attempts = AttemptsPerBatch(up_prog)

\* C18: the first batch write that fails -- in upload_to_airtable.py after
\* five failed attempts for the batch, in the other two uploaders on its
\* first failed request -- is the last batch sent, the run ends with exit 1,
\* and the batches written before it stay written.
C18_FailedBatchAborts ==
    up_pc # "off" =>
        /\ \A k \in 1..Len(up_log) :
              /\ up_log[k].attempts <= AttemptsPerBatch(up_prog)
              /\ BatchFailed(up_log[k])
                    => /\ k = Len(up_log)
                       /\ up_pc = "exit 1"
                       /\ up_written = ConcatBatches(up_log, k - 1)
              \* a batch followed by another one was written
              /\ k < Len(up_log) => ~WriteFailed(up_log[k].last)
        /\ up_pc = "exit 1" => up_log # <<>> /\ up_attempt > 0
        /\ up_pc = "done" => up_written = ConcatBatches(up_log, Len(up_log))

\* a second batch fails for good after the first was written, in each of
\* the uploaders
FailedAfterWritten(prog) ==
    /\ up_prog = prog
    /\ up_pc = "exit 1"
    /\ Len(up_log) = 2
    /\ BatchFailed(up_log[2])
    /\ up_written = up_log[1].batch
    /\ Len(up_written) = BATCH

C18_Witness ==
    \/ FailedAfterWritten("upload_to_airtable") /\ up_log[2].attempts = 5
    \/ FailedAfterWritten("upload_csv_field_aware")
    \/ FailedAfterWritten("push_to_airtable") /\ up_log[2].kind = "update"

\* the records of the batches of one kind, in the order they were sent
SentOfKind(kind) ==
    LET of_kind == SelectSeq(up_log, LAMBDA e : e.kind = kind)
    IN  ConcatBatches(of_kind, Len(of_kind))

IsPrefix(s, t) == Len(s) <= Len(t) /\ s = SubSeq(t, 1, Len(s))

\* no request of the run failed or was answered with a redirect
AllRequestsSucceeded ==
    \A k \in 1..Len(up_log) :
        /\ up_log[k].attempts = 1
        /\ up_log[k].last.exc = ""
        /\ up_log[k].last.status \in 200..299

\* C19: every request of an uploader carries 1 to 10 records, the batches
\* are consecutive slices of the record list in its order, and when all
\* requests succeed every record is sent in exactly one batch.
C19_BatchesAreSlicesOfTen ==
    up_pc # "off" =>
        /\ \A k \in 1..Len(up_log) : Len(up_log[k].batch) \in 1..10
        \* all but the last batch of a list are full
        /\ \A k \in 1..(Len(up_log) - 1) :
              up_log[k].kind = up_log[k + 1].kind => Len(up_log[k].batch) = 10
        /\ IsPrefix(SentOfKind("create"), up_create)
        /\ IsPrefix(SentOfKind("update"), up_update)
        /\ (up_pc = "done" /\ AllRequestsSucceeded) =>
              /\ SentOfKind("create") = up_create
              /\ SentOfKind("update") = up_update
              /\ \A r \in 1..(Len(up_create) + Len(up_update)) :
                    Cardinality({k \in 1..Len(up_log) :
                        \E j \in 1..Len(up_log[k].batch) :
                            up_log[k].batch[j] = r}) = 1

\* a run in which every request succeeded, with a last batch that is short
AllSent(prog, sizes) ==
    /\ up_prog = prog
    /\ up_pc = "done"
    /\ AllRequestsSucceeded
    /\ [k \in 1..Len(up_log) |-> Len(up_log[k].batch)] = sizes

C19_Witness ==
    \/ AllSent("push_to_airtable", <<10, 1, 10>>) /\ up_log[3].kind = "update"
    \/ AllSent("upload_csv_field_aware", <<10, 10, 1>>)
    \/ AllSent("upload_to_airtable", <<10, 10, 1>>)

(***************************************************************************)
(* Properties of the record-fetch loops                                    *)
(***************************************************************************)

\* pages 1..n in order
PagesUpTo(n) == [p \in 1..n |-> p]

\* each request asks for 100 records and carries the token of the page
\* before; the pages fetched so far are the first pages of the table
FetchesInOrder ==
    /\ fa_pages > 0 \/ fa_pc = "failed" =>
          /\ fa_req.pageSize = 100
          /\ fa_req.offset = (IF fa_pc = "failed" THEN fa_offset
                              ELSE TokenOf(fa_pages - 1, fa_table))
    /\ fa_recs = PagesUpTo(fa_pages)
    /\ fa_pages <= fa_table
    /\ fa_pc = "loop" => fa_pages < fa_table

MissingEnv == ~(RequiredEnv(st_script) \subseteq st_env)

\* C21: a run that lacks a required record-store environment value issues
\* no network request, and it neither returns normally nor goes on to the
\* record store: it can only end in the fatal exit.
C21_MissingEnvAbortsBeforeRequests ==
    st_pc # "off" /\ MissingEnv =>
        /\ st_requests = 0
        /\ st_pc \notin {"returned", "running"}

(***************************************************************************)
(* Properties of the analyzer's field resolution and write-back            *)
(***************************************************************************)

\* the fields the analyzer reads its inputs from
InputFields(m) ==
    {m.full_name_f, m.given_name_f, m.surname_f, m.cluster_f, m.occupation_f}
        \ {NoField}

PatchedFields == {p[1] : p \in sc_patch}

\* C30: whatever the table's fields, the patch of a record writes none of
\* the fields the analyzer resolved as its inputs (full name, given name,
\* surname, cluster label, occupation).
C30_PatchLeavesInputsAlone ==
    sc_pc = "done" => PatchedFields \cap InputFields(sc_map) = {}

(***************************************************************************)
(* Properties of the field-aware uploader's records                        *)
(***************************************************************************)

\* the value a record writes to a field, NoField when it writes none
Written(fields, field) ==
    IF \E p \in fields : p[1] = field
    THEN (CHOOSE p \in fields : p[1] = field)[2] ELSE NoField

Constrained == fw_map.cluster_field # NoField /\ fw_map.allowed_cluster.known

Allowed == {fw_map.allowed_cluster.options[i] :
               i \in 1..Len(fw_map.allowed_cluster.options)}

\* an option equal to the value up to case
Matching(clu) == {o \in Allowed : lower(o) = lower(Strip(clu))}

\* C22: every CSV row becomes a record that is posted.  When the cluster
\* field is a select field, the record of a row whose cluster equals no
\* allowed option up to case writes no value to the cluster field, the
\* record of a row whose cluster equals one writes that option as the
\* schema spells it, and no record writes a value outside the allowed
\* options to the cluster field.
C22_ClusterWrittenFromAllowedOptions ==
    fw_pc \in {"read", "done", "died"} =>
        /\ fw_pc = "done" => fw_sent = fw_records /\ Len(fw_sent) = Len(fw_rows)
        /\ Constrained =>
              \A k \in 1..Len(fw_records) :
                  LET w == Written(fw_records[k], fw_map.cluster_field)
                  IN  /\ Matching(fw_rows[k].cluster) = {} => w = NoField
                      /\ Matching(fw_rows[k].cluster) # {} =>
                            w \in Matching(fw_rows[k].cluster)
                      /\ w # NoField => w \in Allowed

(***************************************************************************)
(* Properties of the harvester's upsert                                    *)
(***************************************************************************)

\* the rows upsert has passed
Passed == 1..(us_idx - 1)

\* the rows a write was issued for
WrittenRows == {us_log[k].row : k \in 1..Len(us_log)}

\* the first row of its key up to case
FirstOfKey(i) ==
    \A j \in 1..(i - 1) :
        <<lower(us_rows[j].full_name), lower(us_rows[j].profession_canonical)>>
            # <<lower(us_rows[i].full_name),
                lower(us_rows[i].profession_canonical)>>

\* C23: in a run of upsert one write (a patch or a create) is issued for
\* the first row of each (full_name, profession_canonical) key, compared
\* without regard to case, and none for a later row with the same key: the
\* writes are one per row written, in row order, and the rows written are
\* the rows passed that are the first of their key.
C23_OneWritePerKey ==
    us_pc # "off" =>
        /\ \A k, l \in 1..Len(us_log) : k < l => us_log[k].row < us_log[l].row
        /\ WrittenRows = {i \in Passed : FirstOfKey(i)}

\* two rows whose names differ in case only were passed, with one write
C23_Witness ==
    /\ us_pc = "done"
    /\ \E i, j \in Passed :
          /\ i < j
          /\ us_rows[i].full_name # us_rows[j].full_name
          /\ lower(us_rows[i].full_name) = lower(us_rows[j].full_name)
          /\ i \in WrittenRows
          /\ j \notin WrittenRows

\* C26: every create of upsert follows a lookup that succeeded, for a row
\* that had no record in the table; a row whose lookup failed is not
\* created.
C26_CreateOnlyAfterSuccessfulLookup ==
    us_pc # "off" =>
        \A k \in 1..Len(us_log) :
            us_log[k].write = "create" =>
                us_log[k].lookup_ok /\ ~us_log[k].in_table

(***************************************************************************)
(* Properties of the people query                                          *)
(***************************************************************************)

\* C24: every result binding carries the variables the row extractor needs
\* (person, personLabel, occLabel), and every binding the extractor has
\* passed gave a row with non-empty full_name and profession_canonical.
C24_BindingsYieldRows ==
    pq_pc \in {"extract", "returned"} =>
        /\ \A i \in 1..Len(pq_binds) :
              {"person", "personLabel", "occLabel"} \subseteq DOMAIN pq_binds[i]
        /\ Len(pq_rows) = pq_idx - 1
        /\ \A k \in 1..Len(pq_rows) :
              pq_rows[k].full_name # <<>> /\ pq_rows[k].profession_canonical # <<>>

(***************************************************************************)
(* Properties of the written score and tier                                *)
(***************************************************************************)

\* C29 as stated: the written score, in hundredths, and the written tier
\* agree with the thresholds: score >= 0.66 iff Strong, 0.33 <= score <
\* 0.66 iff Medium, 0 < score < 0.33 iff Weak, score = 0 iff None.
C29_WrittenScoreAgreesWithTier ==
    ws_out # NotWritten /\ ws_out.etymology_match # "off" =>
        LET w == ws_out.etymology_score
            t == ws_out.etymology_match
        IN  /\ w >= 66 <=> t = "Strong"
            /\ (33 <= w /\ w < 66) <=> t = "Medium"
            /\ (0 < w /\ w < 33) <=> t = "Weak"
            /\ w = 0 <=> t = "None"

\* C29: the written score, in hundredths, is >= 0.66 iff the written tier
\* is Strong, in [0.33, 0.66) iff it is Medium, and below 0.33 iff it is
\* Weak or None; the tier is None iff no root is a hit, and a Weak tier is
\* written with the score 0 exactly when hits / roots is below 0.005.
C29_WrittenScoreWithinTier ==
    ws_out # NotWritten /\ ws_out.etymology_match # "off" =>
        LET w == ws_out.etymology_score
            t == ws_out.etymology_match
        IN  /\ w >= 66 <=> t = "Strong"
            /\ (33 <= w /\ w < 66) <=> t = "Medium"
            /\ w < 33 <=> t \in {"Weak", "None"}
            /\ t = "None" <=> ws_in[1] = 0
            /\ t = "Weak" => (w = 0 <=> 200 * ws_in[1] < ws_in[2])

\* one hit among more than 200 roots: tier Weak, score written as 0
C29_Witness ==
    /\ ws_in[1] = 1
    /\ ws_in[2] > 200
    /\ ws_out.etymology_match = "Weak"
    /\ ws_out.etymology_score = 0

(***************************************************************************)
(* Properties of the aligner run twice                                     *)
(***************************************************************************)

\* C25: a record the first run of the aligner patched has, after the second
\* run, the name_meaning, etymology_explain, etymology_score and
\* etymology_match the first run left.
C25_SecondRunChangesNothing ==
    rr_pc = "done" =>
        \A k \in 1..Len(rr_table) :
            rr_first[k].etymology # <<>> =>
                /\ rr_table[k].name_meaning = rr_first[k].name_meaning
                /\ rr_table[k].etymology = rr_first[k].etymology

(***************************************************************************)
(* Properties of push_to_airtable.py                                       *)
(***************************************************************************)

\* C27: after a run that ended without write error the table holds at most
\* one record for each id; an id the table held before is updated and not
\* created, an id of the CSV file that the table did not hold is created
\* once, and no write carries the empty id.
C27_OneRecordPerId ==
    pu_pc = "done" =>
        /\ \A i \in PushIds :
              /\ pu_table[i] <= 1
              /\ pu_before[i] > 0 => Occurrences(pu_create, i) = 0
              /\ pu_before[i] = 0 /\ Occurrences(pu_rows, i) > 0 =>
                    Occurrences(pu_create, i) = 1
        /\ Occurrences(pu_create, EmptyId) = 0
        /\ Occurrences(pu_update, EmptyId) = 0

(***************************************************************************)
(* Properties of the orchestrator                                          *)
(***************************************************************************)

UploadDue ==
    /\ or_run.preflight = "ok"
    /\ or_run.rc = 0
    /\ or_run.n > 1
    /\ ~or_run.skip_upload
    /\ or_run.env = UploadEnv

UploadRan == \E k \in 1..Len(or_stages) : or_stages[k] = "upload"

\* C28: a run that has ended ran the upload stage exactly if preflight
\* passed, discovery exited with 0, the CSV file has more than one line,
\* --skip-upload is not set and the three AIRTABLE_* variables are present;
\* a run whose preflight passed and that did not run the upload exited with
\* 10 after a failed discovery and with 0 otherwise.
C28_UploadIffAllConditionsHold ==
    or_pc = "ended" =>
        /\ UploadRan <=> UploadDue
        /\ or_run.preflight = "ok" /\ ~UploadRan =>
              or_end = (IF or_run.rc # 0 THEN "exit 10" ELSE "exit 0")

=============================================================================
